---- MODULE Spec2Model ----
(***************************************************************************)
(* A model of the smooth-operators REST back end: the in-memory orders,    *)
(* customers and products blueprints (src/routes) and the SQLite-backed    *)
(* operators blueprint (src/app).  Request handlers are actions; the       *)
(* Python helpers they call (int(), float(), str.strip(), re.match, ...)   *)
(* are operators over an explicit representation of JSON values.           *)
(***************************************************************************)
EXTENDS Integers, Sequences, FiniteSets, TLC

VARIABLES
    svc,            \* the blueprint that receives the requests of this run
    orders_db,      \* routes/orders.py: the mock list of orders
    customers_db,   \* routes/customers.py: the mock list of customers
    products_db,    \* routes/products.py: the mock list of products
    operators,      \* app/models.py: rows of table operators, in rowid order
    skills,         \* app/models.py: rows of table skills
    pending,        \* operators requests between their checks and their write
    clock,          \* the value the next datetime.now()/utcnow() returns
    nreq,           \* requests served so far
    DEBUG,          \* the environment variable DEBUG of the process
    uuids,          \* how many ids uuid.uuid4() has handed out
    last            \* the last request served, its response and the store before it

vars == <<svc, orders_db, customers_db, products_db, operators, skills,
          pending, clock, nreq, DEBUG, uuids, last>>

(***************************************************************************)
(* Bounds of the model.                                                    *)
(***************************************************************************)
MaxRequests == 2    \* requests in one run
MaxNum == 1         \* integer inputs range over -MaxNum .. MaxNum

(***************************************************************************)
(* JSON / Python values.  Every value is a record of the same shape:       *)
(* t is the Python type, n the number (int; float in 1/100; bool as 0/1),  *)
(* s the characters of a str (one-character strings).  A key that is not   *)
(* in a dict is the value Absent.                                          *)
(***************************************************************************)
Val(t, n, s) == [t |-> t, n |-> n, s |-> s]
Absent == Val("absent", 0, <<>>)
None == Val("none", 0, <<>>)
VInt(n) == Val("int", n, <<>>)
VFloat(hundredths) == Val("float", hundredths, <<>>)
VBool(b) == Val("bool", IF b THEN 1 ELSE 0, <<>>)
VStr(s) == Val("str", 0, s)

\* Python truthiness: bool(v).
Truthy(v) ==
    CASE v.t = "none" -> FALSE
      [] v.t = "absent" -> FALSE
      [] v.t \in {"int", "float", "bool"} -> v.n # 0
      [] v.t = "str" -> Len(v.s) > 0
      [] OTHER -> FALSE

\* isinstance(v, str)
IsStr(v) == v.t = "str"

(***************************************************************************)
(* Characters and strings.                                                 *)
(***************************************************************************)
LowerSeq == <<"a","b","c","d","e","f","g","h","i","j","k","l","m",
              "n","o","p","q","r","s","t","u","v","w","x","y","z">>
UpperSeq == <<"A","B","C","D","E","F","G","H","I","J","K","L","M",
              "N","O","P","Q","R","S","T","U","V","W","X","Y","Z">>
DigitSeq == <<"0","1","2","3","4","5","6","7","8","9">>
Range(f) == {f[i] : i \in DOMAIN f}
Uppers == Range(UpperSeq)
Digits == Range(DigitSeq)
Letters == Range(LowerSeq) \cup Uppers
Whitespace == {" ", "\t", "\n"}


\* str.lower(): each character, then the string.
lower(s) ==
    LET LowerChar(c) ==
            IF c \in Uppers THEN LowerSeq[CHOOSE i \in DOMAIN UpperSeq : UpperSeq[i] = c]
            ELSE c
    IN  [i \in DOMAIN s |-> LowerChar(s[i])]

\* str.strip(): leading and trailing whitespace removed.
RECURSIVE lstrip(_)
lstrip(s) == IF s # <<>> /\ Head(s) \in Whitespace THEN lstrip(Tail(s)) ELSE s
RECURSIVE rstrip(_)
rstrip(s) ==
    IF s # <<>> /\ s[Len(s)] \in Whitespace THEN rstrip(SubSeq(s, 1, Len(s) - 1))
    ELSE s
strip(s) == rstrip(lstrip(s))

\* str.startswith(prefix)
startswith(s, prefix) ==
    Len(s) >= Len(prefix) /\ SubSeq(s, 1, Len(prefix)) = prefix

\* str.replace(c, ''): every occurrence of the character c removed.
RECURSIVE RemoveChars(_, _)
RemoveChars(s, cs) ==
    IF s = <<>> THEN <<>>
    ELSE IF Head(s) \in cs THEN RemoveChars(Tail(s), cs)
    ELSE <<Head(s)>> \o RemoveChars(Tail(s), cs)

AllIn(s, cs) == \A i \in DOMAIN s : s[i] \in cs

\* A pattern's $ matches at the end and before a newline that ends the string.
DollarCuts(s) ==
    {s} \cup (IF s # <<>> /\ s[Len(s)] = "\n" THEN {SubSeq(s, 1, Len(s) - 1)} ELSE {})

\* re.match(r'^[a-zA-Z0-9._%+-]+@[a-zA-Z0-9.-]+\.[a-zA-Z]{2,}$', text)
email_pattern(text) ==
    LET FullEmail(s) ==
            \E at \in DOMAIN s : \E dot \in DOMAIN s :
                /\ s[at] = "@"
                /\ s[dot] = "."
                /\ at >= 2
                /\ dot >= at + 2
                /\ Len(s) >= dot + 2
                /\ AllIn(SubSeq(s, 1, at - 1), Letters \cup Digits \cup {".", "_", "%", "+", "-"})
                /\ AllIn(SubSeq(s, at + 1, dot - 1), Letters \cup Digits \cup {".", "-"})
                /\ AllIn(SubSeq(s, dot + 1, Len(s)), Letters)
    IN  \E t \in DollarCuts(text) : FullEmail(t)

\* re.match(r'^\+?[1-9]\d{1,14}$', text)
phone_pattern(text) ==
    LET FullPhone(s) ==
            LET d == IF s # <<>> /\ Head(s) = "+" THEN Tail(s) ELSE s
            IN /\ Len(d) >= 2
               /\ Len(d) <= 15
               /\ d[1] \in (Digits \ {"0"})
               /\ AllIn(d, Digits)
    IN  \E t \in DollarCuts(text) : FullPhone(t)

(***************************************************************************)
(* int() and float().  A result is [ok, n]: ok is FALSE where Python       *)
(* raises ValueError or TypeError.                                         *)
(***************************************************************************)
RECURSIVE DigitsValue(_)
DigitsValue(s) ==
    IF s = <<>> THEN 0
    ELSE 10 * DigitsValue(SubSeq(s, 1, Len(s) - 1))
         + (CHOOSE i \in DOMAIN DigitSeq : DigitSeq[i] = s[Len(s)]) - 1

Unsigned(s) == IF s # <<>> /\ Head(s) \in {"+", "-"} THEN Tail(s) ELSE s
Sign(s) == IF s # <<>> /\ Head(s) = "-" THEN -1 ELSE 1

\* int(str): optional whitespace, optional sign, decimal digits.
IntOfStr(s) ==
    LET t == strip(s)
        d == Unsigned(t)
    IN IF d # <<>> /\ AllIn(d, Digits)
       THEN [ok |-> TRUE, n |-> Sign(t) * DigitsValue(d)]
       ELSE [ok |-> FALSE, n |-> 0]

\* int(v)
PyInt(v) ==
    LET \* Truncation toward zero of a value in hundredths.
        Trunc(h) == IF h >= 0 THEN h \div 100 ELSE -((-h) \div 100)
    IN
    CASE v.t \in {"int", "bool"} -> [ok |-> TRUE, n |-> v.n]
      [] v.t = "float" -> [ok |-> TRUE, n |-> Trunc(v.n)]
      [] v.t = "str" -> IntOfStr(v.s)
      [] OTHER -> [ok |-> FALSE, n |-> 0]

\* float(str), in hundredths: optional whitespace, optional sign, digits with at
\* most one point; digits after the second decimal are dropped.
FloatOfStr(s) ==
    LET t == strip(s)
        d == Unsigned(t)
        p == IF \E i \in DOMAIN d : d[i] = "." THEN CHOOSE i \in DOMAIN d : d[i] = "." ELSE 0
        whole == IF p = 0 THEN d ELSE SubSeq(d, 1, p - 1)
        frac == IF p = 0 THEN <<>> ELSE SubSeq(d, p + 1, Len(d))
        cents == IF Len(frac) = 0 THEN 0
                 ELSE IF Len(frac) = 1 THEN 10 * DigitsValue(frac)
                 ELSE DigitsValue(SubSeq(frac, 1, 2))
    IN IF AllIn(whole, Digits) /\ AllIn(frac, Digits) /\ (whole # <<>> \/ frac # <<>>)
       THEN [ok |-> TRUE, n |-> Sign(t) * (100 * DigitsValue(whole) + cents)]
       ELSE [ok |-> FALSE, n |-> 0]

\* float(v), in hundredths
PyFloat(v) ==
    CASE v.t \in {"int", "bool"} -> [ok |-> TRUE, n |-> 100 * v.n]
      [] v.t = "float" -> [ok |-> TRUE, n |-> v.n]
      [] v.t = "str" -> FloatOfStr(v.s)
      [] OTHER -> [ok |-> FALSE, n |-> 0]

(***************************************************************************)
(* Requests and responses.                                                 *)
(***************************************************************************)
\* A str the code only compares or stores whole, written as one symbol.
Word(w) == VStr(<<w>>)

\* A JSON object body: a function from the keys a handler looks at to values,
\* Absent for a key the object does not hold.  dict truthiness: not empty.
DictTruthy(data) == \E k \in DOMAIN data : data[k].t # "absent"
Has(data, k) == data[k].t # "absent"

\* The body of a request that is rejected before request.get_json() is called.
Unread == <<>>

\* jsonify(...), status: the fields of a response the clients and the claims read.
Resp(status, code) ==
    [status |-> status, code |-> code, missing |-> <<>>, empty |-> <<>>,
     item |-> <<>>]
RespItem(status, item) ==
    [status |-> status, code |-> "", missing |-> <<>>, empty |-> <<>>,
     item |-> <<item>>]
RespFields(status, code, missing, empty) ==
    [status |-> status, code |-> code, missing |-> missing, empty |-> empty,
     item |-> <<>>]

\* An exception no handler catches: Flask answers 500.
Uncaught == Resp(500, "INTERNAL_SERVER_ERROR")

\* next((x for x in db if x['id'] == id), None): the index of the first match, 0 for None.
FirstIndex(db, id) ==
    IF \E i \in DOMAIN db : db[i].id = id
    THEN CHOOSE i \in DOMAIN db : db[i].id = id /\ \A j \in 1..(i - 1) : db[j].id # id
    ELSE 0

\* list.remove(x): the first element equal to x removed.
ListRemove(db, x) ==
    LET i == CHOOSE k \in DOMAIN db : db[k] = x /\ \A j \in 1..(k - 1) : db[j] # x
    IN SubSeq(db, 1, i - 1) \o SubSeq(db, i + 1, Len(db))

(***************************************************************************)
(* routes/orders.py                                                        *)
(***************************************************************************)
\* f"{n:03d}": the decimal digits of n, zero-padded to three.
RECURSIVE DigitsOf(_)
DigitsOf(n) == IF n < 10 THEN <<DigitSeq[n + 1]>> ELSE DigitsOf(n \div 10) \o <<DigitSeq[(n % 10) + 1]>>
\* f"{n}": the decimal digits of n without padding.
Pad3_unpadded(n) == DigitsOf(n)

Pad3(n) ==
    LET d == DigitsOf(n)
    IN IF Len(d) >= 3 THEN d ELSE [i \in 1..(3 - Len(d)) |-> "0"] \o d

PRD(n) == VStr(<<"P", "R", "D", "-">> \o Pad3(n))
CUST(n) == VStr(<<"C", "U", "S", "T", "-">> \o Pad3(n))
JohnEmail == VStr(<<"j", "o", "h", "n", "@", "e", "x", "a", "m", "p", "l", "e", ".", "c", "o", "m">>)
JaneEmail == VStr(<<"j", "a", "n", "e", "@", "e", "x", "a", "m", "p", "l", "e", ".", "c", "o", "m">>)

\* The mock database as the module creates it.
orders_db_initial ==
    << [id |-> 1, product_id |-> PRD(1), quantity |-> 2, customer_email |-> JohnEmail,
        status |-> Word("pending"), created_at |-> 1, notes |-> Absent],
       [id |-> 2, product_id |-> PRD(2), quantity |-> 1, customer_email |-> JaneEmail,
        status |-> Word("completed"), created_at |-> 2, notes |-> Absent] >>

\* A scheme prefix without its trailing space.
BEARER_without_space == <<"B", "e", "a", "r", "e", "r">>

\* The scheme prefix of an Authorization header.
BEARER == <<"B", "e", "a", "r", "e", "r", " ">>

\* token_required of the three mock blueprints: the header only has to be there.
token_required(hdr) == hdr.t # "absent"

order_required_fields == <<"product_id", "quantity", "customer_email">>

\* for field in required_fields: if field not in data or not data[field]
order_missing_fields(data) ==
    SelectSeq(order_required_fields, LAMBDA f : ~Has(data, f) \/ ~Truthy(data[f]))

\* not isinstance(data['product_id'], str) or not data['product_id'].startswith('PRD-')

\* try: quantity = int(data['quantity']); if quantity <= 0: 422 / except: 400
order_quantity_check(v) ==
    LET q == PyInt(v)
    IN IF ~q.ok THEN Resp(400, "INVALID_QUANTITY_TYPE")
       ELSE IF q.n <= 0 THEN Resp(422, "INVALID_QUANTITY_VALUE")
       ELSE Resp(200, "")

\* POST /orders.  The result is the response and the list after the request.
create_order(hdr, data, db, now) ==
    IF ~token_required(hdr) THEN [resp |-> Resp(401, "MISSING_AUTH_TOKEN"), db |-> db]
    ELSE IF ~DictTruthy(data) THEN [resp |-> Resp(400, "MISSING_REQUEST_BODY"), db |-> db]
    ELSE IF order_missing_fields(data) # <<>>
    THEN [resp |-> RespFields(400, "MISSING_REQUIRED_FIELDS", order_missing_fields(data), <<>>),
          db |-> db]
    ELSE IF ~IsStr(data["product_id"])
            \/ ~startswith(data["product_id"].s, <<"P", "R", "D", "-">>)
    THEN [resp |-> Resp(400, "INVALID_PRODUCT_ID_FORMAT"), db |-> db]
    ELSE IF order_quantity_check(data["quantity"]).status # 200
    THEN [resp |-> order_quantity_check(data["quantity"]), db |-> db]
    ELSE IF ~IsStr(data["customer_email"]) THEN [resp |-> Uncaught, db |-> db]
    ELSE IF ~email_pattern(data["customer_email"].s)
    THEN [resp |-> Resp(400, "INVALID_EMAIL_FORMAT"), db |-> db]
    ELSE LET new_order ==
                 [id |-> Len(db) + 1,
                  product_id |-> data["product_id"],
                  quantity |-> PyInt(data["quantity"]).n,
                  customer_email |-> data["customer_email"],
                  status |-> Word("pending"),
                  created_at |-> now,
                  notes |-> Absent]
         IN [resp |-> RespItem(201, new_order), db |-> Append(db, new_order)]

\* GET /orders/<int:order_id>
get_order(hdr, order_id, db) ==
    LET i == FirstIndex(db, order_id)
    IN IF ~token_required(hdr) THEN [resp |-> Resp(401, "MISSING_AUTH_TOKEN"), db |-> db]
       ELSE IF i = 0 THEN [resp |-> Resp(404, "ORDER_NOT_FOUND"), db |-> db]
       ELSE [resp |-> RespItem(200, db[i]), db |-> db]

valid_statuses ==
    {Word("pending"), Word("processing"), Word("shipped"), Word("delivered"),
     Word("cancelled")}

\* PUT /orders/<int:order_id>
update_order(hdr, order_id, data, db) ==
    LET i == FirstIndex(db, order_id)
    IN IF ~token_required(hdr) THEN [resp |-> Resp(401, "MISSING_AUTH_TOKEN"), db |-> db]
       ELSE IF i = 0 THEN [resp |-> Resp(404, "ORDER_NOT_FOUND"), db |-> db]
       ELSE IF ~DictTruthy(data) THEN [resp |-> Resp(400, "MISSING_UPDATE_DATA"), db |-> db]
       ELSE IF Has(data, "status") /\ data["status"] \notin valid_statuses
       THEN [resp |-> Resp(400, "INVALID_ORDER_STATUS"), db |-> db]
       ELSE LET order ==
                    [db[i] EXCEPT
                        !.status = IF Has(data, "status") THEN data["status"] ELSE @,
                        !.notes = IF Has(data, "notes") THEN data["notes"] ELSE @]
            IN [resp |-> RespItem(200, order), db |-> [db EXCEPT ![i] = order]]

\* if order['status'] != 'pending': 403
\* A delete_order that asks nothing of the order's status.
order_deletable_always(order) == TRUE

order_deletable(order) == order.status = Word("pending")

\* DELETE /orders/<int:order_id>
delete_order(hdr, order_id, db) ==
    LET i == FirstIndex(db, order_id)
    IN IF ~token_required(hdr) THEN [resp |-> Resp(401, "MISSING_AUTH_TOKEN"), db |-> db]
       ELSE IF i = 0 THEN [resp |-> Resp(404, "ORDER_NOT_FOUND"), db |-> db]
       ELSE IF ~order_deletable(db[i])
       THEN [resp |-> Resp(403, "ORDER_DELETION_FORBIDDEN"), db |-> db]
       ELSE [resp |-> Resp(200, ""), db |-> ListRemove(db, db[i])]

\* A slice whose end index is taken inclusively.
PySlice_inclusive(db, lo, hi) ==
    SubSeq(db, lo + 1, IF hi + 1 < Len(db) THEN hi + 1 ELSE Len(db))

\* db[lo:hi] for 0 <= lo <= hi: the elements at the 0-based positions lo .. hi-1
\* that the list has.
PySlice(db, lo, hi) == SubSeq(db, lo + 1, IF hi < Len(db) THEN hi ELSE Len(db))

\* GET /orders.  limit and offset are the query arguments, Absent for one the
\* query string does not hold; request.args.get(name, default) then gives the int
\* default.  int() of a str raises nothing but ValueError.
list_orders(hdr, limit_arg, offset_arg, db) ==
    LET limit == PyInt(IF limit_arg = Absent THEN VInt(10) ELSE limit_arg)
        offset == PyInt(IF offset_arg = Absent THEN VInt(0) ELSE offset_arg)
    IN IF ~token_required(hdr) THEN [resp |-> Resp(401, "MISSING_AUTH_TOKEN"), db |-> db]
       ELSE IF ~limit.ok \/ ~offset.ok
       THEN [resp |-> Resp(400, "INVALID_PAGINATION_PARAMS"), db |-> db]
       ELSE IF limit.n <= 0 THEN [resp |-> Resp(400, "INVALID_LIMIT_VALUE"), db |-> db]
       ELSE IF offset.n < 0 THEN [resp |-> Resp(400, "INVALID_OFFSET_VALUE"), db |-> db]
       ELSE [resp |-> RespItem(200, [orders |-> PySlice(db, offset.n, offset.n + limit.n),
                                     total |-> Len(db),
                                     limit |-> limit.n,
                                     offset |-> offset.n]),
             db |-> db]

(***************************************************************************)
(* routes/products.py                                                      *)
(***************************************************************************)
products_db_initial ==
    << [id |-> PRD(1), name |-> VStr(<<"L", "a", "p", "t", "o", "p">>), price |-> 99999,
        category |-> Word("Electronics"), stock |-> 50,
        description |-> Word("High-performance laptop")],
       [id |-> PRD(2), name |-> VStr(<<"M", "o", "u", "s", "e">>), price |-> 2999,
        category |-> Word("Electronics"), stock |-> 100,
        description |-> Word("Wireless mouse")] >>

product_required_fields == <<"name", "price", "category", "stock">>

product_missing_fields(data) ==
    SelectSeq(product_required_fields, LAMBDA f : ~Has(data, f))

\* elif not data[field] and data[field] != 0
product_empty_fields(data) ==
    LET \* v != 0
        NotEqualZero(v) == ~(v.t \in {"int", "float", "bool"} /\ v.n = 0)
    IN
    SelectSeq(product_required_fields,
              LAMBDA f : Has(data, f) /\ ~Truthy(data[f]) /\ NotEqualZero(data[f]))

\* try: price = float(data['price']); if price <= 0: 422 / except: 400
price_check(v, typeCode, valueCode) ==
    LET x == PyFloat(v)
    IN IF ~x.ok THEN Resp(400, typeCode)
       ELSE IF x.n <= 0 THEN Resp(422, valueCode)
       ELSE Resp(200, "")

\* try: stock = int(data['stock']); if stock < 0: 422 / except: 400
stock_check(v, typeCode, valueCode) ==
    LET x == PyInt(v)
    IN IF ~x.ok THEN Resp(400, typeCode)
       ELSE IF x.n < 0 THEN Resp(422, valueCode)
       ELSE Resp(200, "")

\* POST /products
create_product(hdr, data, db) ==
    IF ~token_required(hdr) THEN [resp |-> Resp(401, "MISSING_AUTH_TOKEN"), db |-> db]
    ELSE IF ~DictTruthy(data) THEN [resp |-> Resp(400, "MISSING_REQUEST_BODY"), db |-> db]
    ELSE IF product_missing_fields(data) # <<>> \/ product_empty_fields(data) # <<>>
    THEN [resp |-> RespFields(400, "REQUIRED_FIELD_VALIDATION_FAILED",
                              product_missing_fields(data), product_empty_fields(data)),
          db |-> db]
    ELSE IF price_check(data["price"], "INVALID_PRICE_TYPE", "INVALID_PRICE_VALUE").status # 200
    THEN [resp |-> price_check(data["price"], "INVALID_PRICE_TYPE", "INVALID_PRICE_VALUE"),
          db |-> db]
    ELSE IF stock_check(data["stock"], "INVALID_STOCK_TYPE", "INVALID_STOCK_VALUE").status # 200
    THEN [resp |-> stock_check(data["stock"], "INVALID_STOCK_TYPE", "INVALID_STOCK_VALUE"),
          db |-> db]
    ELSE LET new_product ==
                 [id |-> PRD(Len(db) + 1),
                  name |-> data["name"],
                  price |-> PyFloat(data["price"]).n,
                  category |-> data["category"],
                  stock |-> PyInt(data["stock"]).n,
                  description |-> IF Has(data, "description") THEN data["description"]
                                  ELSE VStr(<<>>)]
         IN [resp |-> RespItem(201, new_product), db |-> Append(db, new_product)]

\* if not data[f] or not data[f].strip(): 400; product[f] = data[f].strip()
\* "empty" for the 400, "raise" where .strip() is called on a value that is no str.
text_update_check(v) ==
    IF ~Truthy(v) THEN "empty"
    ELSE IF ~IsStr(v) THEN "raise"
    ELSE IF strip(v.s) = <<>> THEN "empty"
    ELSE "ok"

\* PATCH /products/<product_id>: the product is updated in place, field by field.
update_product(hdr, product_id, data, db) ==
    LET i == FirstIndex(db, product_id)
        p0 == db[i]
        pc == price_check(data["price"], "INVALID_PRICE_UPDATE_TYPE", "INVALID_PRICE_UPDATE_VALUE")
        p1 == IF Has(data, "price") THEN [p0 EXCEPT !.price = PyFloat(data["price"]).n] ELSE p0
        sc == stock_check(data["stock"], "INVALID_STOCK_UPDATE_TYPE", "INVALID_STOCK_UPDATE_VALUE")
        p2 == IF Has(data, "stock") THEN [p1 EXCEPT !.stock = PyInt(data["stock"]).n] ELSE p1
        nc == text_update_check(data["name"])
        p3 == IF Has(data, "name") THEN [p2 EXCEPT !.name = VStr(strip(data["name"].s))] ELSE p2
        cc == text_update_check(data["category"])
        p4 == IF Has(data, "category")
              THEN [p3 EXCEPT !.category = VStr(strip(data["category"].s))] ELSE p3
        p5 == IF Has(data, "description")
              THEN [p4 EXCEPT !.description = data["description"]] ELSE p4
        Out(resp, p) == [resp |-> resp, db |-> [db EXCEPT ![i] = p]]
    IN IF ~token_required(hdr) THEN [resp |-> Resp(401, "MISSING_AUTH_TOKEN"), db |-> db]
       ELSE IF i = 0 THEN [resp |-> Resp(404, "PRODUCT_NOT_FOUND"), db |-> db]
       ELSE IF ~DictTruthy(data) THEN [resp |-> Resp(400, "MISSING_UPDATE_DATA"), db |-> db]
       ELSE IF Has(data, "price") /\ pc.status # 200 THEN Out(pc, p0)
       ELSE IF Has(data, "stock") /\ sc.status # 200 THEN Out(sc, p1)
       ELSE IF Has(data, "name") /\ nc = "empty"
       THEN Out(Resp(400, "INVALID_NAME_UPDATE_VALUE"), p2)
       ELSE IF Has(data, "name") /\ nc = "raise" THEN Out(Uncaught, p2)
       ELSE IF Has(data, "category") /\ cc = "empty"
       THEN Out(Resp(400, "INVALID_CATEGORY_UPDATE_VALUE"), p3)
       ELSE IF Has(data, "category") /\ cc = "raise" THEN Out(Uncaught, p3)
       ELSE Out(RespItem(200, p5), p5)

(***************************************************************************)
(* routes/customers.py                                                     *)
(***************************************************************************)
customers_db_initial ==
    << [id |-> CUST(1), name |-> VStr(<<"J", "o", "h", "n", " ", "D", "o", "e">>),
        email |-> JohnEmail,
        phone |-> VStr(<<"+", "1", "2", "3", "4", "5", "6", "7", "8", "9", "0">>)],
       [id |-> CUST(2), name |-> VStr(<<"J", "a", "n", "e", " ", "S", "m", "i", "t", "h">>),
        email |-> JaneEmail,
        phone |-> VStr(<<"+", "0", "9", "8", "7", "6", "5", "4", "3", "2", "1">>)] >>

customer_required_fields == <<"name", "email", "phone">>

\* str(v) for the values whose text is all whitespace or empty: only a str can be.
StrIsBlank(v) == IsStr(v) /\ strip(v.s) = <<>>

customer_missing_fields(data) ==
    SelectSeq(customer_required_fields, LAMBDA f : ~Has(data, f))

\* elif not data[field] or not str(data[field]).strip()
customer_empty_fields(data) ==
    SelectSeq(customer_required_fields,
              LAMBDA f : Has(data, f) /\ (~Truthy(data[f]) \/ StrIsBlank(data[f])))

\* next((c for c in customers_db if c['email'].lower() == email.lower() ...), None)
\* with the customer whose id is `except` left out (Absent leaves none out).
email_taken(db, email, except) ==
    \E k \in DOMAIN db : lower(db[k].email.s) = lower(email.s) /\ db[k].id # except


\* POST /customers
create_customer(hdr, data, db) ==
    IF ~token_required(hdr) THEN [resp |-> Resp(401, "MISSING_AUTH_TOKEN"), db |-> db, steps |-> <<>>]
    ELSE IF ~DictTruthy(data)
    THEN [resp |-> Resp(400, "MISSING_REQUEST_BODY"), db |-> db, steps |-> <<>>]
    ELSE IF customer_missing_fields(data) # <<>> \/ customer_empty_fields(data) # <<>>
    THEN [resp |-> RespFields(400, "REQUIRED_FIELD_VALIDATION_FAILED",
                              customer_missing_fields(data), customer_empty_fields(data)),
          db |-> db, steps |-> <<"required">>]
    ELSE IF ~IsStr(data["email"])
    THEN [resp |-> Uncaught, db |-> db, steps |-> <<"required", "email">>]
    ELSE IF ~email_pattern(data["email"].s)
    THEN [resp |-> Resp(400, "INVALID_EMAIL_FORMAT"), db |-> db,
          steps |-> <<"required", "email">>]
    ELSE IF email_taken(db, data["email"], Absent)
    THEN [resp |-> Resp(409, "EMAIL_ALREADY_EXISTS"), db |-> db,
          steps |-> <<"required", "email", "unique">>]
    ELSE IF ~IsStr(data["phone"])
    THEN [resp |-> Uncaught, db |-> db, steps |-> <<"required", "email", "unique", "phone">>]
    ELSE IF ~phone_pattern(data["phone"].s)
    THEN [resp |-> Resp(400, "INVALID_PHONE_FORMAT"), db |-> db,
          steps |-> <<"required", "email", "unique", "phone">>]
    ELSE IF ~IsStr(data["name"])
    THEN [resp |-> Uncaught, db |-> db, steps |-> <<"required", "email", "unique", "phone">>]
    ELSE LET new_customer ==
                 [id |-> CUST(Len(db) + 1),
                  name |-> VStr(strip(data["name"].s)),
                  email |-> VStr(lower(data["email"].s)),
                  phone |-> data["phone"]]
         IN [resp |-> RespItem(201, new_customer), db |-> Append(db, new_customer),
             steps |-> <<"required", "email", "unique", "phone", "append">>]

\* PUT /customers/<customer_id>: the customer is updated in place, field by field.
update_customer(hdr, customer_id, data, db) ==
    LET i == FirstIndex(db, customer_id)
        c0 == db[i]
        ec == text_update_check(data["email"])
        c1 == IF Has(data, "email") THEN [c0 EXCEPT !.email = VStr(lower(data["email"].s))]
              ELSE c0
        \* not data['phone'] or not str(data['phone']).strip()
        phoneEmpty == ~Truthy(data["phone"]) \/ StrIsBlank(data["phone"])
        c2 == IF Has(data, "phone") THEN [c1 EXCEPT !.phone = data["phone"]] ELSE c1
        nc == text_update_check(data["name"])
        c3 == IF Has(data, "name") THEN [c2 EXCEPT !.name = VStr(strip(data["name"].s))] ELSE c2
        Out(resp, c) == [resp |-> resp, db |-> [db EXCEPT ![i] = c]]
    IN IF ~token_required(hdr) THEN [resp |-> Resp(401, "MISSING_AUTH_TOKEN"), db |-> db]
       ELSE IF i = 0 THEN [resp |-> Resp(404, "CUSTOMER_NOT_FOUND"), db |-> db]
       ELSE IF ~DictTruthy(data) THEN [resp |-> Resp(400, "MISSING_UPDATE_DATA"), db |-> db]
       ELSE IF Has(data, "email") /\ ec = "empty"
       THEN Out(Resp(400, "INVALID_EMAIL_UPDATE_VALUE"), c0)
       ELSE IF Has(data, "email") /\ ec = "raise" THEN Out(Uncaught, c0)
       ELSE IF Has(data, "email") /\ ~email_pattern(data["email"].s)
       THEN Out(Resp(400, "INVALID_EMAIL_UPDATE_FORMAT"), c0)
       ELSE IF Has(data, "email") /\ email_taken(db, data["email"], customer_id)
       THEN Out(Resp(409, "EMAIL_ALREADY_EXISTS_UPDATE"), c0)
       ELSE IF Has(data, "phone") /\ phoneEmpty
       THEN Out(Resp(400, "INVALID_PHONE_UPDATE_VALUE"), c1)
       ELSE IF Has(data, "phone") /\ ~IsStr(data["phone"]) THEN Out(Uncaught, c1)
       ELSE IF Has(data, "phone") /\ ~phone_pattern(data["phone"].s)
       THEN Out(Resp(400, "INVALID_PHONE_UPDATE_FORMAT"), c1)
       ELSE IF Has(data, "name") /\ nc = "empty"
       THEN Out(Resp(400, "INVALID_NAME_UPDATE_VALUE"), c2)
       ELSE IF Has(data, "name") /\ nc = "raise" THEN Out(Uncaught, c2)
       ELSE Out(RespItem(200, c3), c3)

(***************************************************************************)
(* app/utils.py                                                            *)
(***************************************************************************)
\* A debug flag that is on whatever the environment holds.
DebugOn_always == TRUE

\* os.getenv('DEBUG') as a condition: the variable is set and not empty.
DebugOn == Truthy(DEBUG)

\* The body create_error_response builds.  hint and details are <<>> when the key
\* is left out and <<value>> when it is there; data is the resource of a success.
OpResp(status, error, hint, details) ==
    [status |-> status, error |-> error, hint |-> hint, details |-> details, data |-> <<>>]

\* create_error_response(message, status_code, hint=None, details=None); details
\* is <<>> for None, and otherwise <<d>> with d the list of validation errors or the
\* text of an exception.
DetailList(errors) == [kind |-> "list", v |-> errors]
DetailText(text) == [kind |-> "str", v |-> IF text = "" THEN <<>> ELSE <<text>>]
create_error_response(message, status_code, hint, details) ==
    OpResp(status_code, message,
           IF hint # "" THEN <<hint>> ELSE <<>>,
           IF details # <<>> /\ details[1].v # <<>> /\ DebugOn THEN details ELSE <<>>)

\* auth_header.split(" ", 1): [ok, token]; ok is FALSE where [1] raises IndexError.
SplitOnce(s) ==
    IF \E i \in DOMAIN s : s[i] = " "
    THEN LET i == CHOOSE k \in DOMAIN s : s[k] = " " /\ \A j \in 1..(k - 1) : s[j] # " "
         IN [ok |-> TRUE, token |-> SubSeq(s, i + 1, Len(s))]
    ELSE [ok |-> FALSE, token |-> <<>>]

\* jwt.decode(token, secret, algorithms=['HS256']) for the tokens in play: a token
\* signed with the secret carrying user_id, one without the claim, an expired one;
\* every other string fails verification.
jwt_decode(token) ==
    CASE token = <<"T_ok">> -> [raises |-> "", user_id |-> Word("u1")]
      [] token = <<"T_nosub">> -> [raises |-> "", user_id |-> None]
      [] token = <<"T_expired">> -> [raises |-> "ExpiredSignatureError", user_id |-> None]
      [] OTHER -> [raises |-> "InvalidTokenError", user_id |-> None]

\* An outcome that turns a malformed header away as a bad request.
AuthOutcome_malformed_400(reason, status, decoded) ==
    [reason |-> reason, status |-> IF reason = "MalformedHeader" THEN 400 ELSE status,
     decoded |-> decoded]

\* An AuthOutcome: the reason ("Authenticated" when the handler is called), the
\* status of the rejection, and whether jwt.decode was reached.
AuthOutcome(reason, status, decoded) ==
    [reason |-> reason, status |-> status, decoded |-> decoded]

\* require_auth.decorated_function, up to the call of the wrapped handler.
require_auth(hdr) ==
    IF hdr.t = "absent" THEN AuthOutcome("MissingHeader", 401, FALSE)
    ELSE IF ~startswith(hdr.s, BEARER)
    THEN AuthOutcome("MalformedHeader", 401, FALSE)
    ELSE IF ~SplitOnce(hdr.s).ok THEN AuthOutcome("InvalidFormat", 401, FALSE)
    ELSE IF SplitOnce(hdr.s).token = <<>> THEN AuthOutcome("EmptyToken", 401, FALSE)
    ELSE LET payload == jwt_decode(SplitOnce(hdr.s).token)
         IN IF payload.raises = "ExpiredSignatureError"
            THEN AuthOutcome("Expired", 401, TRUE)
            ELSE IF payload.raises = "InvalidTokenError"
            THEN AuthOutcome("Invalid", 401, TRUE)
            ELSE IF ~Truthy(payload.user_id)
            THEN AuthOutcome("MissingSubjectClaim", 401, TRUE)
            ELSE AuthOutcome("Authenticated", 200, TRUE)

\* The "error" text of each rejection.
auth_error(reason) ==
    CASE reason = "MissingHeader" -> "Unauthorized: missing authorization header"
      [] reason = "MalformedHeader" ->
            "Unauthorized: authorization header must start with 'Bearer '"
      [] reason = "InvalidFormat" -> "Unauthorized: invalid authorization header format"
      [] reason = "EmptyToken" -> "Unauthorized: token is empty"
      [] reason = "Expired" -> "Unauthorized: token has expired"
      [] reason = "Invalid" -> "Unauthorized: invalid token"
      [] reason = "MissingSubjectClaim" -> "Unauthorized: token does not contain user_id"
      [] OTHER -> ""

\* A sanitizer that trims the front of each string only.
sanitize_input_leading_only(data) ==
    [k \in DOMAIN data |-> IF IsStr(data[k]) THEN VStr(lstrip(data[k].s)) ELSE data[k]]

\* sanitize_input(data): every str value stripped, the other values as they are.
sanitize_input(data) ==
    [k \in DOMAIN data |-> IF IsStr(data[k]) THEN VStr(strip(data[k].s)) ELSE data[k]]

MaxNameLen == 255
MaxEmailLen == 320
MaxPhoneLen == 20

\* A name check that update mode skips altogether.
name_errors_skipped_on_update(data, update) ==
    IF update THEN <<>>
    ELSE IF ~Has(data, "name") THEN <<"name is required">>
    ELSE IF ~Truthy(data["name"]) \/ ~IsStr(data["name"])
    THEN <<"name must be a non-empty string">>
    ELSE IF Len(strip(data["name"].s)) = 0
    THEN <<"name cannot be empty or whitespace only">>
    ELSE <<>>

name_errors(data, update) ==
    IF ~update /\ ~Has(data, "name") THEN <<"name is required">>
    ELSE IF ~Has(data, "name") THEN <<>>
    ELSE IF ~Truthy(data["name"]) \/ ~IsStr(data["name"])
    THEN <<"name must be a non-empty string">>
    ELSE IF Len(strip(data["name"].s)) = 0
    THEN <<"name cannot be empty or whitespace only">>
    ELSE IF Len(strip(data["name"].s)) > MaxNameLen
    THEN <<"name cannot exceed 255 characters">>
    ELSE <<>>

\* An email check that never asks for the field.
email_errors_when_present(data, update) ==
    IF ~Has(data, "email") THEN <<>>
    ELSE IF ~Truthy(data["email"]) \/ ~IsStr(data["email"])
    THEN <<"email must be a non-empty string">>
    ELSE IF ~email_pattern(data["email"].s)
    THEN <<"email format is invalid - must be a valid email address">>
    ELSE <<>>

email_errors(data, update) ==
    IF Has(data, "email")
    THEN IF ~Truthy(data["email"]) \/ ~IsStr(data["email"])
         THEN <<"email must be a non-empty string">>
         ELSE IF Len(data["email"].s) > MaxEmailLen
         THEN <<"email cannot exceed 320 characters">>
         ELSE IF ~email_pattern(data["email"].s)
         THEN <<"email format is invalid - must be a valid email address">>
         ELSE <<>>
    ELSE IF ~update THEN <<"email is required">>
    ELSE <<>>

phone_errors(data) ==
    IF Has(data, "phone") /\ Truthy(data["phone"])
    THEN IF ~IsStr(data["phone"]) THEN <<"phone must be a string">>
         ELSE IF Len(data["phone"].s) > MaxPhoneLen
         THEN <<"phone number cannot exceed 20 characters">>
         ELSE IF ~phone_pattern(RemoveChars(data["phone"].s, {" ", "-", "(", ")", "."}))
         THEN <<"phone format is invalid - must be a valid phone number with optional country code">>
         ELSE <<>>
    ELSE <<>>

\* A validation that lets every key through.
unexpected_errors_ignored(data) == <<>>

\* set(data.keys()) - allowed_fields; the bodies in play hold at most the key role.
unexpected_errors(data) ==
    LET allowed_fields == {"name", "email", "phone"}
    IN
    IF \E k \in DOMAIN data : k \notin allowed_fields /\ Has(data, k)
    THEN <<"unexpected fields: role">>
    ELSE <<>>

\* A validation pass that stops at the first field with an error.
validate_first_field_only(data, update) ==
    IF name_errors(data, update) # <<>> THEN name_errors(data, update)
    ELSE IF email_errors(data, update) # <<>> THEN email_errors(data, update)
    ELSE IF phone_errors(data) # <<>> THEN phone_errors(data)
    ELSE unexpected_errors(data)

\* validate_operator_data(data, update=False)
validate_operator_data(data, update) ==
    name_errors(data, update) \o email_errors(data, update) \o phone_errors(data)
        \o unexpected_errors(data)

(***************************************************************************)
(* app.py                                                                  *)
(***************************************************************************)
\* auth_header.split(" "): the pieces between single spaces.
RECURSIVE SplitAll(_)
SplitAll(s) ==
    IF SplitOnce(s).ok
    THEN <<SubSeq(s, 1, Len(s) - Len(SplitOnce(s).token) - 1)>> \o SplitAll(SplitOnce(s).token)
    ELSE <<s>>

\* token_required.decorated of app.py, up to the call of the wrapped function:
\* the status and the code of the answer, 200 where the function is called.
app_token_required(hdr) ==
    LET parts == SplitAll(hdr.s)
        token == IF hdr.t = "absent" THEN <<>> ELSE parts[2]
    IN IF hdr.t # "absent" /\ Len(parts) < 2 THEN [status |-> 401, code |-> "INVALID_AUTH_HEADER"]
       ELSE IF token = <<>> THEN [status |-> 401, code |-> "MISSING_TOKEN"]
       ELSE IF jwt_decode(token).raises = "ExpiredSignatureError"
       THEN [status |-> 401, code |-> "TOKEN_EXPIRED"]
       ELSE IF jwt_decode(token).raises = "InvalidTokenError"
       THEN [status |-> 401, code |-> "INVALID_TOKEN"]
       ELSE [status |-> 200, code |-> ""]

(***************************************************************************)
(* app/models.py                                                           *)
(***************************************************************************)
\* A timestamp text that fromisoformat does not read back.
isoformat_unreadable(n) == VStr(DigitsOf(n))

\* datetime.isoformat() and datetime.fromisoformat(): a datetime is the number of
\* clock ticks, its text the letter T and the decimal digits of that number.
isoformat(n) == VStr(<<"T">> \o DigitsOf(n))
fromisoformat(v) ==
    IF IsStr(v) /\ Len(v.s) >= 2 /\ Head(v.s) = "T" /\ AllIn(Tail(v.s), Digits)
    THEN [ok |-> TRUE, n |-> DigitsValue(Tail(v.s))]
    ELSE [ok |-> FALSE, n |-> 0]

\* str(uuid.uuid4()) for the k-th id handed out, k < 10.
UUID4(k) ==
    VStr([i \in 1..36 |->
            IF i \in {9, 14, 19, 24} THEN "-"
            ELSE IF i = 15 THEN "4"
            ELSE IF i = 20 THEN "8"
            ELSE IF i = 36 THEN DigitSeq[k + 1]
            ELSE "0"])

NoOperator == [id |-> Absent]

\* cls(id=row[0], ..., created_at=datetime.fromisoformat(row[4]) if row[4] else None, ...)
\* with __post_init__: a missing timestamp becomes utcnow().  ok is FALSE where
\* fromisoformat raises ValueError.
OperatorOfRow(row, now) ==
    LET c == fromisoformat(row.created_at)
        u == fromisoformat(row.updated_at)
    IN [ok |-> (~Truthy(row.created_at) \/ c.ok) /\ (~Truthy(row.updated_at) \/ u.ok),
        operator |->
            [id |-> row.id, name |-> row.name, email |-> row.email, phone |-> row.phone,
             created_at |-> IF Truthy(row.created_at) THEN c.n ELSE now,
             updated_at |-> IF Truthy(row.updated_at) THEN u.n ELSE now]]

\* The first row the SELECT of get_by_id / get_by_email returns, as an Operator;
\* None for no row and for a row whose timestamps do not parse.
FetchOne(db, matches, now) ==
    IF matches = {} THEN NoOperator
    ELSE LET i == CHOOSE k \in matches : \A j \in matches : k <= j
             o == OperatorOfRow(db[i], now)
         IN IF o.ok THEN o.operator ELSE NoOperator

\* A listing whose SELECT has no ORDER BY: the rows as the table holds them.
get_all_unordered(db, now) ==
    LET kept == SelectSeq(db, LAMBDA row : OperatorOfRow(row, now).ok)
    IN {[i \in DOMAIN kept |-> OperatorOfRow(kept[i], now).operator]}

\* Operator.get_all(): the lists it can return.  The SELECT orders the rows by
\* the text of created_at, greatest first (BINARY collation: character by
\* character, a digit before the letter T, a prefix before its extensions), and
\* leaves the order of rows with equal created_at open; each row that does not
\* parse is skipped.
get_all(db, now) ==
    LET Code(c) == IF c \in Digits THEN CHOOSE k \in DOMAIN DigitSeq : DigitSeq[k] = c
                   ELSE Len(DigitSeq) + 1
        TextLess(a, b) ==
            \E k \in 1..(Len(b)) :
                /\ k <= Len(a) + 1
                /\ \A j \in 1..(k - 1) : a[j] = b[j]
                /\ k = Len(a) + 1 \/ Code(a[k]) < Code(b[k])
        orders == {p \in [DOMAIN db -> DOMAIN db] :
                     /\ \A i, j \in DOMAIN db : i # j => p[i] # p[j]
                     /\ \A i, j \in DOMAIN db :
                           i < j => ~TextLess(db[p[i]].created_at.s, db[p[j]].created_at.s)}
        Parsed(rows) ==
            LET kept == SelectSeq(rows, LAMBDA row : OperatorOfRow(row, now).ok)
            IN [i \in DOMAIN kept |-> OperatorOfRow(kept[i], now).operator]
    IN {Parsed([i \in DOMAIN db |-> db[p[i]]]) : p \in orders}

\* Operator.get_by_id(operator_id)
get_by_id(db, operator_id, now) ==
    IF ~Truthy(operator_id) THEN NoOperator
    ELSE FetchOne(db, {i \in DOMAIN db : db[i].id = operator_id}, now)

\* Operator.get_by_email(email): WHERE email = ? COLLATE NOCASE, for email.lower()
get_by_email(db, email, now) ==
    IF ~Truthy(email) THEN NoOperator
    ELSE FetchOne(db, {i \in DOMAIN db : lower(db[i].email.s) = lower(lower(email.s))}, now)

\* email TEXT UNIQUE NOT NULL: the rows other than `self_id` that hold the text.
unique_violation(db, email, self_id) ==
    \E i \in DOMAIN db : db[i].email = email /\ db[i].id # self_id

\* An email column that keeps the case it is given.
stored_email_as_given(email) == email

\* The column value of data['email'].lower().
stored_email(email) == VStr(lower(email.s))

\* Operator.create(data): raises is the text of the Exception it raises, "" for none.
Operator_create(data, db, operator_id, now) ==
    LET row == [id |-> operator_id,
                name |-> data["name"],
                email |-> stored_email(data["email"]),
                phone |-> IF Has(data, "phone") THEN data["phone"] ELSE None,
                created_at |-> isoformat(now),
                updated_at |-> isoformat(now)]
    IN IF unique_violation(db, row.email, operator_id)
       THEN [raises |-> "Email address is already in use", db |-> db,
             operator |-> NoOperator]
       ELSE [raises |-> "", db |-> Append(db, row),
             operator |-> [id |-> operator_id,
                           name |-> data["name"],
                           email |-> data["email"],
                           phone |-> IF Has(data, "phone") THEN data["phone"] ELSE None,
                           created_at |-> now,
                           updated_at |-> now]]

\* Operator.update(self, data)
Operator_update(self, data, db, now) ==
    LET new == [self EXCEPT
                    !.name = IF Has(data, "name") THEN data["name"] ELSE @,
                    !.email = IF Has(data, "email") THEN data["email"] ELSE @,
                    !.phone = IF Has(data, "phone") THEN data["phone"] ELSE @,
                    !.updated_at = now]
        column == IF Truthy(new.email) THEN stored_email(new.email) ELSE None
        hit == {i \in DOMAIN db : db[i].id = self.id}
    IN IF hit = {}
       THEN [raises |-> "Operator not found", db |-> db, operator |-> new]
       ELSE IF unique_violation(db, column, self.id)
       THEN [raises |-> "Email address is already in use", db |-> db, operator |-> new]
       ELSE [raises |-> "",
             db |-> [i \in DOMAIN db |->
                        IF i \in hit
                        THEN [db[i] EXCEPT !.name = new.name, !.email = column,
                                           !.phone = new.phone,
                                           !.updated_at = isoformat(now)]
                        ELSE db[i]],
             operator |-> new]

\* A connection that makes every statement durable as it executes.
conn_close_autocommit(committed, work, done) == work

\* conn.close() at the end of a transaction opened with BEGIN: the tables are the
\* working copy if COMMIT was executed (done), and otherwise the tables as they
\* were at BEGIN, since closing a connection discards its open transaction.
conn_close(committed, work, done) == IF done THEN work ELSE committed

\* Operator.delete(self): the skills of the operator and then its row are deleted
\* in one transaction; a row count of 0 raises before COMMIT is executed.
Operator_delete(self, db, skill_rows) ==
    LET hit == {i \in DOMAIN db : db[i].id = self.id}
        work == [operators |-> SelectSeq(db, LAMBDA row : row.id # self.id),
                 skills |-> SelectSeq(skill_rows, LAMBDA s : s.operator_id # self.id)]
        tables == conn_close([operators |-> db, skills |-> skill_rows], work, hit # {})
    IN [raises |-> IF hit = {} THEN "Operator not found" ELSE "",
        db |-> tables.operators, skills |-> tables.skills]

\* Operator.get_skills(self): the rows of the operator, ORDER BY created_at DESC.
\* Rows are inserted with increasing timestamps, so this is the reverse of the
\* order of insertion.
get_skills(self, skill_rows) ==
    LET rows == SelectSeq(skill_rows, LAMBDA s : s.operator_id = self.id)
    IN [i \in 1..Len(rows) |-> rows[Len(rows) + 1 - i]]

\* Operator.to_dict()
to_dict(o) ==
    [id |-> o.id, name |-> o.name, email |-> o.email, phone |-> o.phone,
     created_at |-> isoformat(o.created_at), updated_at |-> isoformat(o.updated_at)]

(***************************************************************************)
(* app/routes/operators.py                                                 *)
(***************************************************************************)
\* What require_auth answers when it rejects; only the invalid-token answer has
\* a details key, the exception text under DEBUG and null otherwise.
auth_response(auth) ==
    OpResp(auth.status, auth_error(auth.reason), <<"hint">>,
           IF auth.reason = "Invalid" /\ DebugOn THEN <<DetailText("InvalidTokenError")>>
           ELSE <<>>)

\* jsonify({"message": ..., "data": operator.to_dict()}), status
operator_response(status, message, operator) ==
    [status |-> status, error |-> "", hint |-> <<>>, details |-> <<>>,
     data |-> <<to_dict(operator)>>]

\* A handler's result: the response, the table afterwards, the stages reached.
Result(resp, db, steps) == [resp |-> resp, db |-> db, steps |-> steps]

\* is_valid_uuid(uuid_string): 32 hexadecimal digits once braces and hyphens are gone.
RECURSIVE StripChars(_, _)
StripChars(s, cs) ==
    IF s # <<>> /\ Head(s) \in cs THEN StripChars(Tail(s), cs)
    ELSE IF s # <<>> /\ s[Len(s)] \in cs THEN StripChars(SubSeq(s, 1, Len(s) - 1), cs)
    ELSE s
is_valid_uuid(s) ==
    LET hex == RemoveChars(StripChars(s, {"{", "}"}), {"-"})
    IN /\ Len(hex) = 32
       /\ AllIn(hex, Digits \cup {"a", "b", "c", "d", "e", "f", "A", "B", "C", "D", "E", "F"})

\* An id check that accepts every id.
validate_operator_id_skipped(operator_id) == ""

\* validate_operator_id(operator_id): the error text, "" for None.
validate_operator_id(operator_id) ==
    IF ~Truthy(operator_id) \/ ~IsStr(operator_id)
    THEN "operator ID must be a non-empty string"
    ELSE IF ~is_valid_uuid(operator_id.s) THEN "operator ID must be a valid UUID format"
    ELSE ""

\* create_operator up to the call of Operator.create: the rejection, or the
\* sanitized record the insert is called with (resp is then <<>>).
create_operator_checks(hdr, is_json, data, db, now) ==
    LET auth == require_auth(hdr)
        clean == sanitize_input(data)
        validation_errors == validate_operator_data(clean, FALSE)
    IN IF auth.reason # "Authenticated" THEN Result(auth_response(auth), db, <<"auth">>)
       ELSE IF ~is_json
       THEN Result(create_error_response("Request must contain JSON data", 400, "hint", <<>>),
                   db, <<"auth", "is_json">>)
       ELSE IF ~DictTruthy(data)
       THEN Result(create_error_response("Request body is empty or invalid JSON", 400,
                                         "hint", <<>>),
                   db, <<"auth", "is_json", "get_json">>)
       ELSE IF validation_errors # <<>>
       THEN Result(create_error_response("Validation failed", 400, "hint",
                                         <<DetailList(validation_errors)>>),
                   db, <<"auth", "is_json", "get_json", "sanitize", "validate">>)
       ELSE IF get_by_email(db, clean["email"], now) # NoOperator
       THEN Result(create_error_response("Email address already in use", 409, "hint", <<>>),
                   db, <<"auth", "is_json", "get_json", "sanitize", "validate",
                         "get_by_email">>)
       ELSE Result(<<>>, db, <<"auth", "is_json", "get_json", "sanitize", "validate",
                               "get_by_email">>)

\* create_operator from the call of Operator.create on.
create_operator_insert(clean, db, operator_id, now, steps) ==
    LET c == Operator_create(clean, db, operator_id, now)
    IN IF c.raises # ""
       THEN Result(create_error_response("Failed to create operator", 500, "hint",
                                         <<DetailText(c.raises)>>),
                   db, steps \o <<"create">>)
       ELSE Result(operator_response(201, "Operator created successfully", c.operator),
                   c.db, steps \o <<"create">>)

\* GET /api/v1/operators, for the list that Operator.get_all returned.
get_operators(operators_list, db) ==
    Result([status |-> 200, error |-> "", hint |-> <<>>, details |-> <<>>,
            data |-> <<[data |-> [i \in DOMAIN operators_list |-> to_dict(operators_list[i])],
                        count |-> Len(operators_list)]>>],
           db, <<"get_all">>)

\* GET /api/v1/operators/<operator_id>
get_operator(operator_id, db, now) ==
    LET operator == get_by_id(db, operator_id, now)
    IN IF validate_operator_id(operator_id) # ""
       THEN Result(create_error_response(validate_operator_id(operator_id), 400, "hint", <<>>),
                   db, <<"validate_id">>)
       ELSE IF operator = NoOperator
       THEN Result(create_error_response("Operator not found", 404, "hint", <<>>),
                   db, <<"validate_id", "get_by_id">>)
       ELSE Result(operator_response(200, "", operator), db, <<"validate_id", "get_by_id">>)

\* PUT /api/v1/operators/<operator_id> up to the call of operator.update: the
\* rejection, or the stages passed (resp is then <<>>).
update_operator_checks(hdr, operator_id, is_json, data, db, now) ==
    LET auth == require_auth(hdr)
        operator == get_by_id(db, operator_id, now)
        clean == sanitize_input(data)
        validation_errors == validate_operator_data(clean, TRUE)
        \* if 'email' in data and data['email'] != operator.email
        email_changed == Has(clean, "email") /\ clean["email"] # operator.email
        validated == <<"auth", "validate_id", "is_json", "get_json", "get_by_id",
                       "sanitize", "validate">>
        checked == validated \o (IF email_changed THEN <<"get_by_email">> ELSE <<>>)
    IN IF auth.reason # "Authenticated" THEN Result(auth_response(auth), db, <<"auth">>)
       ELSE IF validate_operator_id(operator_id) # ""
       THEN Result(create_error_response(validate_operator_id(operator_id), 400, "hint", <<>>),
                   db, <<"auth", "validate_id">>)
       ELSE IF ~is_json
       THEN Result(create_error_response("Request must contain JSON data", 400, "hint", <<>>),
                   db, <<"auth", "validate_id", "is_json">>)
       ELSE IF ~DictTruthy(data)
       THEN Result(create_error_response("Request body is empty or invalid JSON", 400,
                                         "hint", <<>>),
                   db, <<"auth", "validate_id", "is_json", "get_json">>)
       ELSE IF operator = NoOperator
       THEN Result(create_error_response("Operator not found", 404, "hint", <<>>),
                   db, <<"auth", "validate_id", "is_json", "get_json", "get_by_id">>)
       ELSE IF validation_errors # <<>>
       THEN Result(create_error_response("Validation failed", 422, "hint",
                                         <<DetailList(validation_errors)>>),
                   db, validated)
       ELSE IF email_changed /\ get_by_email(db, clean["email"], now) # NoOperator
       THEN Result(create_error_response("Email address already in use", 409, "hint", <<>>),
                   db, checked)
       ELSE Result(<<>>, db, checked)

\* update_operator from the call of operator.update on; self is the Operator that
\* get_by_id returned.
update_operator_write(self, clean, db, now, steps) ==
    LET u == Operator_update(self, clean, db, now)
    IN IF u.raises # ""
       THEN Result(create_error_response("Failed to update operator", 500, "hint",
                                         <<DetailText(u.raises)>>),
                   db, steps \o <<"update">>)
       ELSE Result(operator_response(200, "Operator updated successfully", u.operator),
                   u.db, steps \o <<"update">>)

\* DELETE /api/v1/operators/<operator_id> up to the call of operator.delete.
delete_operator_checks(hdr, operator_id, db, now) ==
    LET auth == require_auth(hdr)
    IN IF auth.reason # "Authenticated" THEN Result(auth_response(auth), db, <<"auth">>)
       ELSE IF validate_operator_id(operator_id) # ""
       THEN Result(create_error_response(validate_operator_id(operator_id), 400, "hint", <<>>),
                   db, <<"auth", "validate_id">>)
       ELSE IF get_by_id(db, operator_id, now) = NoOperator
       THEN Result(create_error_response("Operator not found", 404, "hint", <<>>),
                   db, <<"auth", "validate_id", "get_by_id">>)
       ELSE Result(<<>>, db, <<"auth", "validate_id", "get_by_id">>)

\* delete_operator from the call of operator.delete on: the response and both tables.
delete_operator_write(self, db, skill_rows, steps) ==
    LET d == Operator_delete(self, db, skill_rows)
    IN [resp |-> IF d.raises # ""
                 THEN create_error_response("Failed to delete operator", 500, "hint",
                                            <<DetailText(d.raises)>>)
                 ELSE OpResp(200, "", <<>>, <<>>),
        db |-> d.db, skills |-> d.skills, steps |-> steps \o <<"delete">>]

\* GET /api/v1/operators/<operator_id>/skills.  get_skills returns dicts, and the
\* handler calls skill.to_dict() on each: a non-empty list raises AttributeError,
\* which the handler's except answers with 500.
get_operator_skills(operator_id, db, skill_rows, now) ==
    LET operator == get_by_id(db, operator_id, now)
    IN IF validate_operator_id(operator_id) # ""
       THEN Result(create_error_response(validate_operator_id(operator_id), 400, "hint", <<>>),
                   db, <<"validate_id">>)
       ELSE IF operator = NoOperator
       THEN Result(create_error_response("Operator not found", 404, "hint", <<>>),
                   db, <<"validate_id", "get_by_id">>)
       ELSE IF get_skills(operator, skill_rows) # <<>>
       THEN Result(create_error_response("Failed to retrieve operator skills", 500, "hint",
                                         <<DetailText("AttributeError")>>),
                   db, <<"validate_id", "get_by_id", "get_skills">>)
       ELSE Result([status |-> 200, error |-> "", hint |-> <<>>, details |-> <<>>,
                    data |-> <<[data |-> <<>>, count |-> 0, operator_id |-> operator_id]>>],
                   db, <<"validate_id", "get_by_id", "get_skills">>)

(***************************************************************************)
(* The requests the orders blueprint is offered.                           *)
(***************************************************************************)
\* The value of last while no served request is being looked at.
NoRequest == [op |-> "none"]

\* The response has been sent: the server is ready for the next request.
Respond ==
    /\ last # NoRequest
    /\ last' = NoRequest
    /\ UNCHANGED <<svc, orders_db, customers_db, products_db, operators, skills,
                   pending, clock, nreq, DEBUG, uuids>>

\* A header carrying a token; the token is opaque to everything but jwt.decode.
BearerHeader(token) == VStr(BEARER \o token)
GoodHeader == BearerHeader(<<"T_ok">>)
MockHeaders == {Absent, GoodHeader}

BadText == VStr(<<"b", "a", "d">>)

\* The bodies a request with header hdr is tried with: a request the decorator
\* rejects never has its body read.
BodiesFor(hdr, bodies) == IF token_required(hdr) THEN bodies ELSE {Unread}

\* The server is idle and may serve one more request of blueprint s.
Ready(s) == svc = s /\ last = NoRequest /\ nreq < MaxRequests

\* One request has been served: what the claims look at afterwards.  pre is the
\* blueprint's store before the request, steps the checks the handler reached.
Served(op, hdr, id, data, r, pre, steps) ==
    /\ nreq' = nreq + 1
    /\ last' = [op |-> op, hdr |-> hdr, id |-> id, data |-> data,
                resp |-> r.resp, pre |-> pre, steps |-> steps]

CreateOrder ==
    LET CreateOrderBodies ==
            LET NumberInputs ==
                    {Absent, None, Val("list", 0, <<>>), VBool(TRUE), VBool(FALSE), VFloat(50), VFloat(150), VFloat(-50)}
                        \cup {VInt(n) : n \in (-MaxNum)..MaxNum}
                        \cup {VStr(<<"1">>), VStr(<<"0">>), VStr(<<"-", "1">>), VStr(<<"1", ".", "5">>),
                              VStr(<<" ", "1", " ">>), VStr(<<>>), BadText}
            IN
            [product_id : {Absent, PRD(1), BadText, VInt(1)},
             quantity : NumberInputs,
             customer_email : {Absent, JohnEmail, BadText, VInt(1)}]
    IN
    /\ Ready("orders")
    /\ \E hdr \in MockHeaders : \E data \in BodiesFor(hdr, CreateOrderBodies) :
          LET r == create_order(hdr, data, orders_db, clock)
          IN /\ Served("create_order", hdr, 0, data, r, orders_db, <<>>)
             /\ orders_db' = r.db
    /\ clock' = clock + 1
    /\ UNCHANGED <<svc, customers_db, products_db, operators, skills, pending, DEBUG, uuids>>

GetOrder ==
    /\ Ready("orders")
    /\ \E hdr \in MockHeaders : \E id \in 1..(Len(orders_db_initial) + 1) :
          LET r == get_order(hdr, id, orders_db)
          IN /\ Served("get_order", hdr, id, Unread, r, orders_db, <<>>)
             /\ orders_db' = r.db
    /\ UNCHANGED <<svc, customers_db, products_db, operators, skills, pending, clock, DEBUG, uuids>>

UpdateOrder ==
    LET UpdateOrderBodies ==
            [status : {Absent, None, Word("bogus"), Word("completed")} \cup valid_statuses,
             notes : {Absent, Word("n")}]
    IN
    /\ Ready("orders")
    /\ \E hdr \in MockHeaders : \E id \in 1..(Len(orders_db_initial) + 1) :
          \E data \in BodiesFor(hdr, UpdateOrderBodies) :
              LET r == update_order(hdr, id, data, orders_db)
              IN /\ Served("update_order", hdr, id, data, r, orders_db, <<>>)
                 /\ orders_db' = r.db
    /\ UNCHANGED <<svc, customers_db, products_db, operators, skills, pending, clock, DEBUG, uuids>>

DeleteOrder ==
    LET \* Authorization headers a request is tried with: none, other schemes, no token,
        \* tokens that fail verification, and a token signed with the secret.
        RequestHeaders ==
            {Absent,
             VStr(<<"B", "a", "s", "i", "c", " ", "T_ok">>),
             VStr(BEARER),
             BearerHeader(<<"T_bad">>),
             BearerHeader(<<"T_expired">>),
             GoodHeader}
    IN
    /\ Ready("orders")
    /\ \E hdr \in RequestHeaders : \E id \in 1..(Len(orders_db_initial) + 1) :
          LET r == delete_order(hdr, id, orders_db)
          IN /\ Served("delete_order", hdr, id, Unread, r, orders_db, <<>>)
             /\ orders_db' = r.db
    /\ UNCHANGED <<svc, customers_db, products_db, operators, skills, pending, clock, DEBUG, uuids>>

ListOrders ==
    LET \* The texts a query argument is tried with: no integer, and the integers around 0.
        PageArgs ==
            {Absent, BadText, VStr(<<"1", ".", "5">>), VStr(<<" ", "1", " ">>)}
                \cup {VStr(IF n < 0 THEN <<"-">> \o DigitsOf(-n) ELSE DigitsOf(n)) :
                          n \in (-MaxNum)..(MaxNum + 1)}
    IN
    /\ Ready("orders")
    /\ \E hdr \in MockHeaders : \E args \in BodiesFor(hdr, [limit : PageArgs, offset : PageArgs]) :
          LET r == IF args = Unread THEN list_orders(hdr, Absent, Absent, orders_db)
                   ELSE list_orders(hdr, args.limit, args.offset, orders_db)
          IN /\ Served("list_orders", hdr, 0, args, r, orders_db, <<>>)
             /\ orders_db' = r.db
    /\ UNCHANGED <<svc, customers_db, products_db, operators, skills, pending, clock, DEBUG, uuids>>

\* One client with a token that sends well-formed order requests only, and more
\* of them in a row than the requests above: a create, an update of the status,
\* a delete or a read of an order by id.
MaxSessionRequests == 4    \* requests in one run of the session
OrderSession ==
    /\ svc = "orders"
    /\ last = NoRequest
    /\ nreq < MaxSessionRequests
    /\ \/ LET data == [product_id |-> PRD(1), quantity |-> VInt(1),
                       customer_email |-> JohnEmail]
              r == create_order(GoodHeader, data, orders_db, clock)
          IN /\ Served("create_order", GoodHeader, 0, data, r, orders_db, <<>>)
             /\ orders_db' = r.db
             /\ clock' = clock + 1
       \/ \E id \in 1..(Len(orders_db_initial) + 1) :
          \E status \in {Word("pending"), Word("shipped")} :
             LET data == [status |-> status, notes |-> Absent]
                 r == update_order(GoodHeader, id, data, orders_db)
             IN /\ Served("update_order", GoodHeader, id, data, r, orders_db, <<>>)
                /\ orders_db' = r.db
                /\ clock' = clock
       \/ \E id \in 1..(Len(orders_db_initial) + 1) :
             LET r == delete_order(GoodHeader, id, orders_db)
             IN /\ Served("delete_order", GoodHeader, id, Unread, r, orders_db, <<>>)
                /\ orders_db' = r.db
                /\ clock' = clock
       \/ \E id \in 1..(Len(orders_db_initial) + 1) :
             LET r == get_order(GoodHeader, id, orders_db)
             IN /\ Served("get_order", GoodHeader, id, Unread, r, orders_db, <<>>)
                /\ orders_db' = r.db
                /\ clock' = clock
    /\ UNCHANGED <<svc, customers_db, products_db, operators, skills, pending, DEBUG, uuids>>

(***************************************************************************)
(* The requests the products blueprint is offered.                         *)
(***************************************************************************)
PriceInputs ==
    {Absent, None, BadText, VStr(<<"1", ".", "5">>)} \cup {VInt(n) : n \in (-MaxNum)..MaxNum}
StockInputs ==
    {Absent, VFloat(-50), BadText} \cup {VInt(n) : n \in (-MaxNum)..MaxNum}
BlankText == VStr(<<" ">>)
ProductNameInputs == {Absent, VStr(<<" ", "K", "e", "y", " ">>), BlankText}

CreateProduct ==
    LET CreateProductBodies ==
            [name : ProductNameInputs, price : PriceInputs, category : {Absent, Word("Electronics")},
             stock : StockInputs, description : {Absent}]
    IN
    /\ Ready("products")
    /\ \E hdr \in MockHeaders : \E data \in BodiesFor(hdr, CreateProductBodies) :
          LET r == create_product(hdr, data, products_db)
          IN /\ Served("create_product", hdr, Absent, data, r, products_db, <<>>)
             /\ products_db' = r.db
    /\ UNCHANGED <<svc, orders_db, customers_db, operators, skills, pending, clock, DEBUG, uuids>>

UpdateProduct ==
    LET UpdateProductBodies ==
            [name : ProductNameInputs, price : PriceInputs, category : {Absent},
             stock : StockInputs, description : {Absent}]
    IN
    /\ Ready("products")
    /\ \E hdr \in MockHeaders : \E id \in {PRD(1), PRD(Len(products_db_initial) + 1)} :
          \E data \in BodiesFor(hdr, UpdateProductBodies) :
              LET r == update_product(hdr, id, data, products_db)
              IN /\ Served("update_product", hdr, id, data, r, products_db, <<>>)
                 /\ products_db' = r.db
    /\ UNCHANGED <<svc, orders_db, customers_db, operators, skills, pending, clock, DEBUG, uuids>>

(***************************************************************************)
(* The requests the customers blueprint is offered.                        *)
(***************************************************************************)
NewEmail == VStr(<<"n", "e", "w", "@", "e", "x", "a", "m", "p", "l", "e", ".", "c", "o", "m">>)
NewEmailMixed == VStr(<<"N", "e", "w", "@", "E", "x", "a", "m", "p", "l", "e", ".", "C", "o", "m">>)
JohnEmailMixed ==
    VStr(<<"J", "O", "H", "N", "@", "E", "x", "a", "m", "p", "l", "e", ".", "C", "O", "M">>)
NotAnEmail == VStr(<<"n", "o", "t", "-", "a", "n", "-", "e", "m", "a", "i", "l">>)
GoodPhone == VStr(<<"+", "4", "4", "1", "2">>)
BadPhone == VStr(<<"0", "1", "2">>)
CustomerBodies ==
    [name : {Absent, VStr(<<" ", "A", "l", " ">>), BlankText},
     email : {Absent, NewEmail, NewEmailMixed, JohnEmailMixed, NotAnEmail, VInt(1)},
     phone : {Absent, GoodPhone, BadPhone, VInt(1)}]

CreateCustomer ==
    /\ Ready("customers")
    /\ \E hdr \in MockHeaders : \E data \in BodiesFor(hdr, CustomerBodies) :
          LET r == create_customer(hdr, data, customers_db)
          IN /\ Served("create_customer", hdr, Absent, data, r, customers_db, r.steps)
             /\ customers_db' = r.db
    /\ UNCHANGED <<svc, orders_db, products_db, operators, skills, pending, clock, DEBUG, uuids>>

UpdateCustomer ==
    /\ Ready("customers")
    /\ \E hdr \in MockHeaders : \E id \in {CUST(n) : n \in 1..(Len(customers_db_initial) + 1)} :
          \E data \in BodiesFor(hdr, CustomerBodies) :
              LET r == update_customer(hdr, id, data, customers_db)
              IN /\ Served("update_customer", hdr, id, data, r, customers_db, <<>>)
                 /\ customers_db' = r.db
    /\ UNCHANGED <<svc, orders_db, products_db, operators, skills, pending, clock, DEBUG, uuids>>

(***************************************************************************)
(* The requests the operators blueprint is offered.  A create, an update   *)
(* and a delete are served in two steps, the handler's checks and then its *)
(* write, so that the requests of two workers interleave between the       *)
(* SELECT of a check and the statements of Operator.create / update /      *)
(* delete.                                                                 *)
(***************************************************************************)
MaxInFlight == 2    \* requests between their checks and their write

OperatorHeaders ==
    {Absent,
     VStr(<<"B", "a", "s", "i", "c", " ", "T_ok">>),
     VStr(<<"b", "e", "a", "r", "e", "r", " ", "T_ok">>),
     VStr(<<"B", "e", "a", "r", "e", "r">>),
     VStr(BEARER),
     BearerHeader(<<" ", "T_ok">>),
     BearerHeader(<<"T_bad">>),
     BearerHeader(<<"T_expired">>),
     BearerHeader(<<"T_nosub">>),
     GoodHeader}

OperatorIdInputs ==
    {UUID4(0), UUID4(1), VStr(<<"n", "o", "t", "-", "a", "-", "u", "u", "i", "d">>)}

\* <<header, is_json, body>>: the body is read only by a handler that is reached.
OperatorRequests ==
    LET OperatorBodies ==
            [name : {Absent, VStr(<<" ", "A", "n", "n", " ">>), BlankText, VInt(1)},
             email : {Absent, NewEmail, NewEmailMixed, JaneEmail, NotAnEmail, VInt(1)},
             phone : {Absent, None, VStr(<<"+", "4", "4", " ", "1", "2", "-", "3">>), BadPhone},
             role : {Absent, Word("admin")}]
    IN
    {<<h, TRUE, Unread>> : h \in OperatorHeaders \ {GoodHeader}}
        \cup {<<GoodHeader, FALSE, Unread>>}
        \cup {<<GoodHeader, TRUE, d>> : d \in OperatorBodies}

\* One operators request has been answered.  clean is the body after
\* sanitize_input, seen the table as the handler's existence check read it, pre
\* and pre_skills the tables before the handler's last access to them.
OperatorServed(op, hdr, id, is_json, data, seen, r) ==
    last' = [op |-> op, hdr |-> hdr, id |-> id, is_json |-> is_json, data |-> data,
             clean |-> IF data = Unread THEN Unread ELSE sanitize_input(data),
             resp |-> r.resp, seen |-> seen,
             pre |-> operators, pre_skills |-> skills, steps |-> r.steps]

\* A request whose checks passed and whose write is still to come: self is the
\* Operator its get_by_id returned, seen the table its checks read.
InFlight(kind, hdr, id, data, steps, self) ==
    [kind |-> kind, hdr |-> hdr, id |-> id, data |-> data, seen |-> operators,
     steps |-> steps, self |-> self]

\* The queue of requests in flight without its i-th.
Without(i) == SubSeq(pending, 1, i - 1) \o SubSeq(pending, i + 1, Len(pending))

\* POST /api/v1/operators up to Operator.create: rejected, or left in flight.
BeginCreateOperator ==
    /\ Ready("operators")
    /\ Len(pending) < MaxInFlight
    /\ \E q \in OperatorRequests :
          LET r == create_operator_checks(q[1], q[2], q[3], operators, clock)
          IN IF r.resp # <<>>
             THEN /\ OperatorServed("create_operator", q[1], Absent, q[2], q[3], operators, r)
                  /\ pending' = pending
             ELSE /\ pending' = Append(pending, InFlight("create", q[1], Absent, q[3],
                                                         r.steps, NoOperator))
                  /\ last' = last
    /\ nreq' = nreq + 1
    /\ clock' = clock + 1
    /\ UNCHANGED <<svc, orders_db, customers_db, products_db, operators, skills, DEBUG,
                   uuids>>

\* Operator.create and the response of a request in flight.
FinishCreateOperator ==
    /\ svc = "operators"
    /\ last = NoRequest
    /\ \E i \in DOMAIN pending :
          LET p == pending[i]
              r == create_operator_insert(sanitize_input(p.data), operators,
                                          UUID4(uuids + 1), clock, p.steps)
          IN /\ p.kind = "create"
             /\ OperatorServed("create_operator", p.hdr, Absent, TRUE, p.data, p.seen, r)
             /\ operators' = r.db
             /\ pending' = Without(i)
    /\ uuids' = uuids + 1
    /\ clock' = clock + 1
    /\ UNCHANGED <<svc, orders_db, customers_db, products_db, skills, DEBUG, nreq>>

GetOperator ==
    /\ Ready("operators")
    /\ \E id \in OperatorIdInputs :
          LET r == get_operator(id, operators, clock)
          IN OperatorServed("get_operator", Absent, id, TRUE, Unread, operators, r)
    /\ nreq' = nreq + 1
    /\ clock' = clock + 1
    /\ UNCHANGED <<svc, orders_db, customers_db, products_db, operators, skills, pending,
                   DEBUG, uuids>>

\* PUT /api/v1/operators/<operator_id> up to operator.update.  The body of a
\* request whose id is refused is never read.
BeginUpdateOperator ==
    /\ Ready("operators")
    /\ Len(pending) < MaxInFlight
    /\ \E id \in OperatorIdInputs :
       \E q \in (IF validate_operator_id(id) # ""
                THEN {<<h, TRUE, Unread>> : h \in OperatorHeaders}
                ELSE OperatorRequests) :
          LET r == update_operator_checks(q[1], id, q[2], q[3], operators, clock)
          IN IF r.resp # <<>>
             THEN /\ OperatorServed("update_operator", q[1], id, q[2], q[3], operators, r)
                  /\ pending' = pending
             ELSE /\ pending' = Append(pending, InFlight("update", q[1], id, q[3], r.steps,
                                                         get_by_id(operators, id, clock)))
                  /\ last' = last
    /\ nreq' = nreq + 1
    /\ clock' = clock + 1
    /\ UNCHANGED <<svc, orders_db, customers_db, products_db, operators, skills, DEBUG,
                   uuids>>

\* operator.update and the response of a request in flight.
FinishUpdateOperator ==
    /\ svc = "operators"
    /\ last = NoRequest
    /\ \E i \in DOMAIN pending :
          LET p == pending[i]
              r == update_operator_write(p.self, sanitize_input(p.data), operators, clock,
                                         p.steps)
          IN /\ p.kind = "update"
             /\ OperatorServed("update_operator", p.hdr, p.id, TRUE, p.data, p.seen, r)
             /\ operators' = r.db
             /\ pending' = Without(i)
    /\ clock' = clock + 1
    /\ UNCHANGED <<svc, orders_db, customers_db, products_db, skills, DEBUG, nreq, uuids>>

\* DELETE /api/v1/operators/<operator_id> up to operator.delete.
BeginDeleteOperator ==
    /\ Ready("operators")
    /\ Len(pending) < MaxInFlight
    /\ \E hdr \in OperatorHeaders : \E id \in OperatorIdInputs :
          LET r == delete_operator_checks(hdr, id, operators, clock)
          IN IF r.resp # <<>>
             THEN /\ OperatorServed("delete_operator", hdr, id, FALSE, Unread, operators, r)
                  /\ pending' = pending
             ELSE /\ pending' = Append(pending, InFlight("delete", hdr, id, Unread, r.steps,
                                                         get_by_id(operators, id, clock)))
                  /\ last' = last
    /\ nreq' = nreq + 1
    /\ clock' = clock + 1
    /\ UNCHANGED <<svc, orders_db, customers_db, products_db, operators, skills, DEBUG,
                   uuids>>

\* operator.delete and the response of a request in flight.
FinishDeleteOperator ==
    /\ svc = "operators"
    /\ last = NoRequest
    /\ \E i \in DOMAIN pending :
          LET p == pending[i]
              r == delete_operator_write(p.self, operators, skills, p.steps)
          IN /\ p.kind = "delete"
             /\ OperatorServed("delete_operator", p.hdr, p.id, FALSE, Unread, p.seen, r)
             /\ operators' = r.db
             /\ skills' = r.skills
             /\ pending' = Without(i)
    /\ clock' = clock + 1
    /\ UNCHANGED <<svc, orders_db, customers_db, products_db, DEBUG, nreq, uuids>>

GetOperators ==
    /\ Ready("operators")
    /\ \E operators_list \in get_all(operators, clock) :
          OperatorServed("get_operators", Absent, Absent, FALSE, Unread, operators,
                         get_operators(operators_list, operators))
    /\ nreq' = nreq + 1
    /\ clock' = clock + 1
    /\ UNCHANGED <<svc, orders_db, customers_db, products_db, operators, skills, pending,
                   DEBUG, uuids>>

GetOperatorSkills ==
    /\ Ready("operators")
    /\ \E id \in OperatorIdInputs :
          LET r == get_operator_skills(id, operators, skills, clock)
          IN OperatorServed("get_operator_skills", Absent, id, FALSE, Unread, operators, r)
    /\ nreq' = nreq + 1
    /\ clock' = clock + 1
    /\ UNCHANGED <<svc, orders_db, customers_db, products_db, operators, skills, pending,
                   DEBUG, uuids>>

\* The application has no endpoint that writes the skills table: its rows come
\* from another client of the database file.  Foreign keys are not enforced (no
\* PRAGMA foreign_keys), so a row can name an operator that has just been deleted.
MaxSkills == 1      \* rows of table skills
AddSkill ==
    /\ svc = "operators"
    /\ last = NoRequest
    /\ Len(skills) < MaxSkills
    /\ \E id \in {operators[i].id : i \in DOMAIN operators}
                    \cup {pending[i].id : i \in {j \in DOMAIN pending :
                                                    pending[j].kind = "delete"}} :
          skills' = Append(skills, [id |-> Len(skills) + 1, operator_id |-> id,
                                    skill_name |-> Word("sql"),
                                    skill_level |-> Word("beginner"),
                                    created_at |-> isoformat(1)])
    /\ UNCHANGED <<svc, orders_db, customers_db, products_db, operators, pending, clock,
                   nreq, DEBUG, uuids, last>>

(***************************************************************************)
(* The helpers of app/utils.py applied on their own: records as a caller   *)
(* may pass them, before any sanitizing.                                   *)
(***************************************************************************)

\* validate_operator_data(data) and validate_operator_data(data, update=True)
ValidateOperatorData ==
    LET ValidatorRecords ==
            LET \* A text of n characters.
                LongText(n) == VStr([i \in 1..n |-> "a"])
            IN
            [name : {Absent, None, VInt(1), VStr(<<>>), BlankText, VStr(<<" ", "A", "n", "n", " ">>),
                     LongText(MaxNameLen + 1)},
             email : {Absent, None, VInt(1), VStr(<<>>), NewEmail, NotAnEmail,
                      LongText(MaxEmailLen + 1)},
             phone : {Absent, None, VInt(1), VStr(<<>>), GoodPhone, BadPhone,
                      LongText(MaxPhoneLen + 1)},
             role : {Absent, Word("admin")}]
    IN
    /\ Ready("utils")
    /\ \E data \in ValidatorRecords :
          last' = [op |-> "validate_operator_data", data |-> data,
                   create |-> validate_operator_data(data, FALSE),
                   update |-> validate_operator_data(data, TRUE)]
    /\ nreq' = nreq + 1
    /\ UNCHANGED <<svc, orders_db, customers_db, products_db, operators, skills, pending,
                   clock, DEBUG, uuids>>

\* sanitize_input(data), and sanitize_input of its result
SanitizeInput ==
    LET SanitizeRecords ==
            [name : {Absent, VStr(<<>>), VStr(<<" ">>), VStr(<<" ", "\t", "A", " ", "b", "\n", " ">>),
                     VStr(<<"A", " ", "b">>)},
             email : {Absent, VStr(<<"\n", "a", "@", "b", ".", "c", "o">>), NewEmail},
             phone : {Absent, None, VInt(1), VBool(FALSE), VFloat(150), Val("list", 0, <<>>),
                      VStr(<<"1", "2", " ">>)},
             role : {Absent, VStr(<<" ", "x">>)}]
    IN
    /\ Ready("utils")
    /\ \E data \in SanitizeRecords :
          last' = [op |-> "sanitize_input", data |-> data,
                   once |-> sanitize_input(data),
                   twice |-> sanitize_input(sanitize_input(data))]
    /\ nreq' = nreq + 1
    /\ UNCHANGED <<svc, orders_db, customers_db, products_db, operators, skills, pending,
                   clock, DEBUG, uuids>>

(***************************************************************************)
(* Specifications.                                                         *)
(***************************************************************************)

\* The state after start-up: the mock stores as their modules define them, the
\* operators table as init_database creates it, DEBUG unset, empty or 1.  The four
\* blueprints share no state: a run of the application, looked at through one
\* blueprint's store, is a run of that blueprint.
Init ==
    /\ svc \in {"orders", "products", "customers", "operators"}
    /\ DEBUG \in (IF svc = "operators" THEN {Absent, VStr(<<>>), VStr(<<"1">>)}
                  ELSE {Absent})
    /\ orders_db = orders_db_initial
    /\ customers_db = customers_db_initial
    /\ products_db = products_db_initial
    /\ operators = <<>>
    /\ skills = <<>>
    /\ pending = <<>>
    /\ uuids = 0
    /\ clock = 3
    /\ nreq = 0
    /\ last = NoRequest

NextOrders == CreateOrder \/ GetOrder \/ UpdateOrder \/ DeleteOrder \/ ListOrders \/ Respond
InitOrders == Init /\ svc = "orders"
SpecOrders == InitOrders /\ [][NextOrders]_vars

NextOrderSession == OrderSession \/ Respond
SpecOrderSession == InitOrders /\ [][NextOrderSession]_vars

NextOperators ==
    \/ BeginCreateOperator \/ FinishCreateOperator
    \/ BeginUpdateOperator \/ FinishUpdateOperator
    \/ BeginDeleteOperator \/ FinishDeleteOperator
    \/ GetOperator \/ GetOperators \/ GetOperatorSkills \/ AddSkill
    \/ Respond
InitOperators == Init /\ svc = "operators"
SpecOperators == InitOperators /\ [][NextOperators]_vars

\* The operators blueprint started on a database file that an earlier run left
\* behind: init_database creates its tables only IF NOT EXISTS, so the row is there.
InitReopened ==
    LET \* A row that an earlier run of the application left in the database file.
        SeedRow ==
            [id |-> UUID4(0), name |-> VStr(<<"J", "a", "n", "e">>), email |-> JaneEmail,
             phone |-> None, created_at |-> isoformat(1), updated_at |-> isoformat(1)]
    IN
    /\ svc = "operators"
    /\ DEBUG \in {Absent, VStr(<<"1">>)}
    /\ orders_db = orders_db_initial
    /\ customers_db = customers_db_initial
    /\ products_db = products_db_initial
    /\ operators = <<SeedRow>>
    /\ skills = <<>>
    /\ pending = <<>>
    /\ uuids = 0
    /\ clock = 3
    /\ nreq = 0
    /\ last = NoRequest
SpecReopened == InitReopened /\ [][NextOperators]_vars

\* The operators blueprint started on a database file whose rows earlier runs and
\* other clients of the file wrote: up to MaxRows rows, each created_at a readable
\* timestamp, a text that is no timestamp or empty, each updated_at readable or not.
MaxRows == 3        \* rows of table operators at start-up
InitListing ==
    LET StoredRow(k, created, updated) ==
            [id |-> UUID4(k), name |-> VStr(<<"J", "a", "n", "e">>),
             email |-> VStr(<<DigitSeq[k + 1], "@", "b", ".", "c", "o">>),
             phone |-> None, created_at |-> created, updated_at |-> updated]
        Created == {isoformat(1), isoformat(2), VStr(<<"9">>), VStr(<<>>)}
        Updated == {isoformat(2), VStr(<<"9">>)}
    IN /\ svc = "operators"
       /\ DEBUG \in {Absent, VStr(<<"1">>)}
       /\ orders_db = orders_db_initial
       /\ customers_db = customers_db_initial
       /\ products_db = products_db_initial
       /\ \E n \in 0..MaxRows : \E c \in [1..n -> Created] : \E u \in [1..n -> Updated] :
             operators = [i \in 1..n |-> StoredRow(i - 1, c[i], u[i])]
       /\ skills = <<>>
       /\ pending = <<>>
       /\ uuids = 0
       /\ clock = 3
       /\ nreq = 0
       /\ last = NoRequest
NextListing == GetOperators \/ GetOperator \/ Respond
SpecListing == InitListing /\ [][NextListing]_vars

\* The helpers of app/utils.py called on their own, no request being served.
NextUtils == ValidateOperatorData \/ SanitizeInput \/ Respond
InitUtils ==
    /\ svc = "utils"
    /\ DEBUG = Absent
    /\ orders_db = orders_db_initial
    /\ customers_db = customers_db_initial
    /\ products_db = products_db_initial
    /\ operators = <<>>
    /\ skills = <<>>
    /\ pending = <<>>
    /\ uuids = 0
    /\ clock = 3
    /\ nreq = 0
    /\ last = NoRequest
SpecUtils == InitUtils /\ [][NextUtils]_vars

Next ==
    \/ CreateOrder \/ GetOrder \/ UpdateOrder \/ DeleteOrder \/ ListOrders
    \/ CreateProduct \/ UpdateProduct
    \/ CreateCustomer \/ UpdateCustomer
    \/ BeginCreateOperator \/ FinishCreateOperator
    \/ BeginUpdateOperator \/ FinishUpdateOperator
    \/ BeginDeleteOperator \/ FinishDeleteOperator
    \/ GetOperator \/ GetOperators \/ GetOperatorSkills \/ AddSkill
    \/ Respond
Spec == Init /\ [][Next]_vars

(***************************************************************************)
(* Deleting orders.                                                        *)
(***************************************************************************)
\* The order a request on last.id found in the store it was served from.
FoundOrder == last.pre[FirstIndex(last.pre, last.id)]
DeleteReachedOrder ==
    /\ last.op = "delete_order"
    /\ token_required(last.hdr)
    /\ FirstIndex(last.pre, last.id) # 0

\* C1: DELETE /orders/{id} on an existing order removes it iff the order's status
\* is pending; on an existing order in any other status the response is 403 and the
\* orders store is exactly the same before and after the request.
C1_DeleteOnlyPending ==
    DeleteReachedOrder =>
        IF FoundOrder.status = Word("pending")
        THEN /\ orders_db = ListRemove(last.pre, FoundOrder)
             /\ Len(orders_db) = Len(last.pre) - 1
             /\ \A i \in DOMAIN orders_db : orders_db[i] # FoundOrder
        ELSE /\ last.resp.status = 403
             /\ orders_db = last.pre

\* A delete request refused on an order that an earlier update moved to shipped.
C1_Witness ==
    /\ DeleteReachedOrder
    /\ FoundOrder.status = Word("shipped")
    /\ last.resp.status = 403
    /\ orders_db = last.pre

(***************************************************************************)
(* Numbers that do not parse, numbers out of range.                        *)
(***************************************************************************)
\* The answer to a value that does not parse is 400, to one that parses into the
\* refused range 422.
ParseThenRange(parsed, refused) ==
    IF ~parsed.ok THEN last.resp.status = 400
    ELSE refused => last.resp.status = 422

\* The request reached its handler and nothing but the named field stands
\* between it and the check of that field.
OrderQuantityDecides ==
    /\ last.op = "create_order"
    /\ token_required(last.hdr)
    /\ Has(last.data, "quantity")
    /\ Truthy(last.data["product_id"])
    /\ IsStr(last.data["product_id"])
    /\ startswith(last.data["product_id"].s, <<"P", "R", "D", "-">>)
    /\ Truthy(last.data["customer_email"])
ProductFieldDecides(field) ==
    /\ last.op \in {"create_product", "update_product"}
    /\ token_required(last.hdr)
    /\ DictTruthy(last.data)
    /\ Has(last.data, field)
    /\ last.op = "create_product" =>
          /\ product_missing_fields(last.data) = <<>>
          /\ Range(product_empty_fields(last.data)) \subseteq {field}
    /\ last.op = "update_product" => FirstIndex(last.pre, last.id) # 0
    /\ field = "stock" =>
          \/ last.op = "update_product" /\ ~Has(last.data, "price")
          \/ Has(last.data, "price") /\ PyFloat(last.data["price"]).ok
                /\ PyFloat(last.data["price"]).n > 0

\* C2: for create_product, update_product and create_order, a price, stock or
\* quantity that does not parse as a number is answered 400, and one that parses
\* but is out of range (price <= 0, quantity <= 0, stock < 0) is answered 422,
\* the quantity 0 and the price 0 included.
C2_ParseAndRange ==
    /\ OrderQuantityDecides =>
          ParseThenRange(PyInt(last.data["quantity"]), PyInt(last.data["quantity"]).n <= 0)
    /\ ProductFieldDecides("price") =>
          ParseThenRange(PyFloat(last.data["price"]), PyFloat(last.data["price"]).n <= 0)
    /\ ProductFieldDecides("stock") =>
          ParseThenRange(PyInt(last.data["stock"]), PyInt(last.data["stock"]).n < 0)

\* The same with the orders left out: what the two product handlers do.
C2_ProductsOnly ==
    /\ ProductFieldDecides("price") =>
          ParseThenRange(PyFloat(last.data["price"]), PyFloat(last.data["price"]).n <= 0)
    /\ ProductFieldDecides("stock") =>
          ParseThenRange(PyInt(last.data["stock"]), PyInt(last.data["stock"]).n < 0)

\* The same for the orders, a quantity that is falsy (0, False) left out.
C2_OrdersTruthy ==
    (OrderQuantityDecides /\ Truthy(last.data["quantity"])) =>
        ParseThenRange(PyInt(last.data["quantity"]), PyInt(last.data["quantity"]).n <= 0)

(***************************************************************************)
(* Stored emails.                                                          *)
(***************************************************************************)
\* Every email of the store is lowercase and no two are equal ignoring case.
LowercaseAndUnique(db) ==
    /\ \A i \in DOMAIN db : db[i].email.s = lower(db[i].email.s)
    /\ \A i, j \in DOMAIN db : i # j => lower(db[i].email.s) # lower(db[j].email.s)

\* A create request that is well-formed up to the existence check, for an email
\* that a stored record holds in some case.
CustomerCreateOfTakenEmail ==
    /\ last.op = "create_customer"
    /\ token_required(last.hdr)
    /\ DictTruthy(last.data)
    /\ customer_missing_fields(last.data) = <<>>
    /\ customer_empty_fields(last.data) = <<>>
    /\ IsStr(last.data["email"])
    /\ email_pattern(last.data["email"].s)
    /\ \E k \in DOMAIN last.pre : lower(last.pre[k].email.s) = lower(last.data["email"].s)
OperatorCreateOfTakenEmail ==
    /\ last.op = "create_operator"
    /\ require_auth(last.hdr).reason = "Authenticated"
    /\ last.is_json
    /\ DictTruthy(last.data)
    /\ validate_operator_data(last.clean, FALSE) = <<>>
    /\ \E k \in DOMAIN last.seen :
          lower(last.seen[k].email.s) = lower(last.clean["email"].s)

\* C3: after any sequence of create and update requests on customers and on
\* operators every stored email is lowercase and no two stored records have emails
\* that are equal ignoring case; a create whose email equals an existing one
\* ignoring case is answered 409 and adds nothing to the store.
C3_EmailsLowercaseUnique ==
    /\ LowercaseAndUnique(customers_db)
    /\ LowercaseAndUnique(operators)
    /\ CustomerCreateOfTakenEmail => last.resp.status = 409 /\ customers_db = last.pre
    /\ OperatorCreateOfTakenEmail => last.resp.status = 409 /\ operators = last.pre

\* An operator create is refused for an email that differs from a stored one in
\* case only.
C3_Witness ==
    /\ OperatorCreateOfTakenEmail
    /\ last.clean["email"] = NewEmailMixed
    /\ \E k \in DOMAIN operators : operators[k].email = NewEmail
    /\ last.resp.status = 409
    /\ operators = last.pre

\* A customer create is refused for an email that differs from a stored one in
\* case only.
C3_WitnessCustomers ==
    /\ CustomerCreateOfTakenEmail
    /\ last.data["email"] = JohnEmailMixed
    /\ last.resp.status = 409
    /\ customers_db = last.pre

(***************************************************************************)
(* The authentication gate of the operators blueprint.                     *)
(***************************************************************************)
\* The request in `last` went through require_auth.
Gated == last.op \in {"create_operator", "update_operator"}

\* The first reason that matches, in the order MissingHeader, MalformedHeader,
\* EmptyToken, Expired/Invalid, MissingSubjectClaim.
FirstMatch(hdr) ==
    LET prefix == <<"B", "e", "a", "r", "e", "r", " ">>
        token == SubSeq(hdr.s, Len(prefix) + 1, Len(hdr.s))
    IN IF hdr = Absent THEN "MissingHeader"
       ELSE IF Len(hdr.s) < Len(prefix) \/ SubSeq(hdr.s, 1, Len(prefix)) # prefix
       THEN "MalformedHeader"
       ELSE IF token = <<>> THEN "EmptyToken"
       ELSE IF jwt_decode(token).raises = "ExpiredSignatureError" THEN "Expired"
       ELSE IF jwt_decode(token).raises = "InvalidTokenError" THEN "Invalid"
       ELSE IF jwt_decode(token).user_id = None THEN "MissingSubjectClaim"
       ELSE "Authenticated"

\* C4: require_auth reports exactly one rejection reason per rejected request, the
\* first that matches in the order MissingHeader, MalformedHeader, EmptyToken,
\* Expired/Invalid, MissingSubjectClaim: the header 'Bearer ' yields EmptyToken, an
\* absent header yields MissingHeader without any token parsing, and the wrapped
\* handler is invoked only when the outcome is Authenticated.
C4_AuthPrecedence ==
    Gated =>
        LET auth == require_auth(last.hdr)
        IN /\ auth.reason = FirstMatch(last.hdr)
           /\ last.hdr = VStr(<<"B", "e", "a", "r", "e", "r", " ">>) =>
                 auth.reason = "EmptyToken"
           /\ last.hdr = Absent => auth.reason = "MissingHeader" /\ ~auth.decoded
           /\ auth.reason # "Authenticated" =>
                 /\ last.resp.error = auth_error(auth.reason)
                 /\ last.resp.error # ""
                 /\ \A other \in {"MissingHeader", "MalformedHeader", "EmptyToken",
                                  "Expired", "Invalid", "MissingSubjectClaim"} \ {auth.reason} :
                       last.resp.error # auth_error(other)
                 /\ last.steps = <<"auth">>
                 /\ operators = last.pre
           /\ last.steps # <<"auth">> => auth.reason = "Authenticated"

\* An update request with the header 'Bearer ' is turned away as EmptyToken.
C4_Witness ==
    /\ last.op = "update_operator"
    /\ last.hdr = VStr(<<"B", "e", "a", "r", "e", "r", " ">>)
    /\ last.resp.error = auth_error("EmptyToken")
    /\ last.steps = <<"auth">>

(***************************************************************************)
(* Records that lack a required field.                                     *)
(***************************************************************************)
\* A create request whose body the handler read.
MockCreateRead(op) ==
    last.op = op /\ token_required(last.hdr)
OperatorCreateRead ==
    /\ last.op = "create_operator"
    /\ require_auth(last.hdr).reason = "Authenticated"
    /\ last.is_json

\* The message validate_operator_data has for a required field that is absent.
RequiredMessage(f) == IF f = "name" THEN "name is required" ELSE "email is required"

\* C5: for every create request whose record lacks a required field, validation
\* returns a non-empty error list with a message naming that field, the request is
\* rejected, and the store is neither queried for uniqueness nor changed.
C5_MissingRequiredRejected ==
    /\ \A f \in {"name", "email"} :
          (OperatorCreateRead /\ ~Has(last.clean, f)) =>
              LET errors == validate_operator_data(last.clean, FALSE)
              IN /\ errors # <<>>
                 /\ RequiredMessage(f) \in Range(errors)
                 /\ last.resp.status = 400
                 /\ (DictTruthy(last.data) /\ DebugOn) =>
                       last.resp.details = <<DetailList(errors)>>
                 /\ Range(last.steps) \cap {"get_by_email", "create"} = {}
                 /\ operators = last.pre
    /\ \A f \in Range(customer_required_fields) :
          (MockCreateRead("create_customer") /\ ~Has(last.data, f)) =>
              /\ f \in Range(customer_missing_fields(last.data))
              /\ last.resp.status = 400
              /\ DictTruthy(last.data) => f \in Range(last.resp.missing)
              /\ Range(last.steps) \cap {"unique", "append"} = {}
              /\ customers_db = last.pre
    /\ \A f \in Range(product_required_fields) :
          (MockCreateRead("create_product") /\ ~Has(last.data, f)) =>
              /\ f \in Range(product_missing_fields(last.data))
              /\ last.resp.status = 400
              /\ DictTruthy(last.data) => f \in Range(last.resp.missing)
              /\ products_db = last.pre
    /\ \A f \in Range(order_required_fields) :
          (MockCreateRead("create_order") /\ ~Has(last.data, f)) =>
              /\ f \in Range(order_missing_fields(last.data))
              /\ last.resp.status = 400
              /\ DictTruthy(last.data) => f \in Range(last.resp.missing)
              /\ orders_db = last.pre

\* An operator create with a valid name and no email is rejected at validation.
C5_Witness ==
    /\ OperatorCreateRead
    /\ Has(last.clean, "name")
    /\ name_errors(last.clean, FALSE) = <<>>
    /\ ~Has(last.clean, "email")
    /\ DebugOn
    /\ last.resp.status = 400
    /\ last.resp.details = <<DetailList(<<"email is required">>)>>
    /\ last.steps = <<"auth", "is_json", "get_json", "sanitize", "validate">>
    /\ operators = last.pre

(***************************************************************************)
(* Creating an operator and reading it back.                               *)
(***************************************************************************)
OperatorCreated == last.op = "create_operator" /\ last.resp.status = 201

\* C6: after a successful operator create with a valid name and email, fetching by
\* the returned id yields a record with the same name, the email lowercased, and
\* non-null created_at and updated_at, for emails with uppercase letters too.
C6_CreateThenFetch ==
    OperatorCreated =>
        LET created == last.resp.data[1]
            fetched == get_operator(created.id, operators, clock).resp
        IN /\ fetched.status = 200
           /\ fetched.data[1].id = created.id
           /\ fetched.data[1].name = last.clean["name"]
           /\ fetched.data[1].name = created.name
           /\ fetched.data[1].email = VStr(lower(last.clean["email"].s))
           /\ fetched.data[1].created_at # None
           /\ fetched.data[1].updated_at # None
           /\ fromisoformat(fetched.data[1].created_at).ok
           /\ fromisoformat(fetched.data[1].updated_at).ok

\* An operator has been created with an email that holds uppercase letters.
C6_Witness ==
    /\ OperatorCreated
    /\ last.clean["email"] = NewEmailMixed
    /\ get_operator(last.resp.data[1].id, operators, clock).resp.data[1].email = NewEmail

(***************************************************************************)
(* Details in error responses.                                             *)
(***************************************************************************)
\* The process-wide debug flag: the environment holds a non-empty DEBUG.
DebugFlagSet == DEBUG # Absent /\ DEBUG.s # <<>>

\* The details the handlers pass: None, the errors of a failed validation, the
\* text of a caught exception.
CallerDetails ==
    {<<>>,
     <<DetailList(<<"name is required", "email is required">>)>>,
     <<DetailText("Email address is already in use")>>}

\* The request in `last` was answered through create_error_response after its
\* validation failed.
ValidationFailed ==
    /\ last.op \in {"create_operator", "update_operator"}
    /\ last.steps # <<>>
    /\ last.steps[Len(last.steps)] = "validate"

\* C7: create_error_response includes the details entry in the body if and only if
\* the debug flag is set and details is non-null; in non-debug mode no response
\* body produced through it carries internal exception text.
C7_DetailsOnlyUnderDebug ==
    /\ \A d \in CallerDetails :
          LET body == create_error_response("Validation failed", 400, "hint", d)
          IN /\ body.details # <<>> <=> (DebugFlagSet /\ d # <<>>)
             /\ body.details # <<>> => body.details = d
    /\ last.op \in {"create_operator", "update_operator", "get_operator"} =>
          /\ ~DebugFlagSet => last.resp.details = <<>>
          /\ ValidationFailed =>
                /\ last.resp.details # <<>> <=> DebugFlagSet
                /\ DebugFlagSet =>
                      last.resp.details =
                          <<DetailList(validate_operator_data(
                                           last.clean, last.op = "update_operator"))>>
          /\ last.resp.status = 500 =>
                /\ last.resp.details # <<>> <=> DebugFlagSet
                /\ DebugFlagSet => last.resp.details[1].kind = "str"
          /\ last.resp.status \in {404, 409} => last.resp.details = <<>>

\* With DEBUG set, an update that fails validation is answered with the errors.
C7_Witness ==
    /\ DebugFlagSet
    /\ ValidationFailed
    /\ last.op = "update_operator"
    /\ last.resp.status = 422
    /\ last.resp.details # <<>>

\* With DEBUG unset, a failed insert is answered without the exception text.
C7_WitnessNoDebug ==
    /\ ~DebugFlagSet
    /\ last.op = "create_operator"
    /\ last.resp.status = 500
    /\ last.resp.details = <<>>

(***************************************************************************)
(* The status of a rejected Authorization header.                          *)
(***************************************************************************)
\* The header is present and does not start with the scheme prefix 'Bearer '.
Malformed(hdr) ==
    /\ hdr # Absent
    /\ \/ Len(hdr.s) < 7
       \/ SubSeq(hdr.s, 1, 7) # <<"B", "e", "a", "r", "e", "r", " ">>
\* The header is missing, or its token is invalid or expired.
MissingInvalidOrExpired(hdr) ==
    \/ hdr = Absent
    \/ /\ ~Malformed(hdr)
       /\ Len(hdr.s) > 7
       /\ jwt_decode(SubSeq(hdr.s, 8, Len(hdr.s))).raises # ""

RowsWithEmail(db, email) ==
    {k \in DOMAIN db : lower(db[k].email.s) = lower(email.s)}

\* The create in `last` passed its existence check when no row held its email,
\* and reached its insert after another create had inserted that email.
LostTheRace ==
    /\ last.op = "create_operator"
    /\ last.steps # <<>>
    /\ last.steps[Len(last.steps)] = "create"
    /\ RowsWithEmail(last.seen, last.clean["email"]) = {}
    /\ RowsWithEmail(last.pre, last.clean["email"]) # {}

\* C9: when two create-operator requests with the same email (ignoring case) both
\* pass the existence check, exactly one operator row is inserted and the losing
\* request, whose insert hits the uniqueness violation, is answered 409 rather
\* than 500.
C9_LoserAnswered409 ==
    LostTheRace =>
        /\ Cardinality(RowsWithEmail(operators, last.clean["email"])) = 1
        /\ operators = last.pre
        /\ last.resp.status = 409

\* What the code does for the losing request: one row, and the answer 500.
C9_LoserAnswered500 ==
    LostTheRace =>
        /\ Cardinality(RowsWithEmail(operators, last.clean["email"])) = 1
        /\ operators = last.pre
        /\ last.resp.status = 500
        /\ last.resp.error = "Failed to create operator"

\* The losing request of a race on emails that differ in case only.
C9_Race ==
    /\ LostTheRace
    /\ last.clean["email"] = NewEmailMixed
    /\ \E k \in DOMAIN operators : operators[k].email = NewEmail

(***************************************************************************)
(* Records that break the rules of two fields.                             *)
(***************************************************************************)
\* The required field f of a mock store's create request is missing or empty.
Unprovided(op, f) ==
    \/ ~Has(last.data, f)
    \/ ~Truthy(last.data[f])
          /\ (op = "create_product" => ~(last.data[f].t \in {"int", "float", "bool"}))
    \/ op = "create_customer" /\ IsStr(last.data[f]) /\ strip(last.data[f].s) = <<>>

\* The field f is provided and breaks its format or range rule.
IllFormed(op, f) ==
    LET v == last.data[f]
    IN /\ ~Unprovided(op, f)
       /\ \/ f \in {"email", "customer_email"} /\ IsStr(v) /\ ~email_pattern(v.s)
          \/ f = "phone" /\ IsStr(v) /\ ~phone_pattern(v.s)
          \/ f = "price" /\ (~PyFloat(v).ok \/ PyFloat(v).n <= 0)
          \/ f \in {"stock", "quantity"} /\ ~PyInt(v).ok
          \/ f = "stock" /\ PyInt(v).n < 0
          \/ f = "quantity" /\ PyInt(v).n <= 0
          \/ f = "product_id" /\ (~IsStr(v) \/ ~startswith(v.s, <<"P", "R", "D", "-">>))

\* The fields of each create request, in the order the handler checks them.
CheckedFields(op) ==
    CASE op = "create_customer" -> <<"name", "email", "phone">>
      [] op = "create_product" -> <<"name", "price", "category", "stock">>
      [] op = "create_order" -> <<"product_id", "quantity", "customer_email">>

\* The codes with which a mock handler reports a format or range error of f.
CodesOf(f) ==
    CASE f \in {"email", "customer_email"} -> {"INVALID_EMAIL_FORMAT"}
      [] f = "phone" -> {"INVALID_PHONE_FORMAT"}
      [] f = "price" -> {"INVALID_PRICE_TYPE", "INVALID_PRICE_VALUE"}
      [] f = "stock" -> {"INVALID_STOCK_TYPE", "INVALID_STOCK_VALUE"}
      [] f = "quantity" -> {"INVALID_QUANTITY_TYPE", "INVALID_QUANTITY_VALUE"}
      [] f = "product_id" -> {"INVALID_PRODUCT_ID_FORMAT"}
      [] OTHER -> {}

\* The response of a mock handler says something about the field f.
Covers(f) ==
    \/ f \in Range(last.resp.missing) \cup Range(last.resp.empty)
    \/ last.resp.code \in CodesOf(f)

\* A create request of a mock store with a non-empty body.
MockCreate ==
    /\ last.op \in {"create_customer", "create_product", "create_order"}
    /\ token_required(last.hdr)
    /\ DictTruthy(last.data)

\* An operators request whose body reached validate_operator_data.
OperatorValidated ==
    /\ last.op \in {"create_operator", "update_operator"}
    /\ "validate" \in Range(last.steps)

\* The errors of one field of an operator record.
FieldErrors(f, update) ==
    CASE f = "name" -> name_errors(last.clean, update)
      [] f = "email" -> email_errors(last.clean, update)
      [] f = "phone" -> phone_errors(last.clean)

C10_WitnessOperators ==
    /\ OperatorValidated
    /\ DebugFlagSet
    /\ last.op = "create_operator"
    /\ last.resp.details =
          <<DetailList(<<"name must be a non-empty string",
                         "email format is invalid - must be a valid email address">>)>>

(***************************************************************************)
(* What the client is told of a failed validation.                         *)
(***************************************************************************)
\* C11: when operator validation finds errors, the handler rejects the request
\* and the response body sent to the client lists all of the accumulated
\* validation errors, whether or not the debug flag is set.
C11_ErrorsListedAlways ==
    ValidationFailed =>
        LET update == last.op = "update_operator"
        IN /\ last.resp.status = IF update THEN 422 ELSE 400
           /\ last.resp.details =
                 <<DetailList(validate_operator_data(last.clean, update))>>

(***************************************************************************)
(* Validation and the uniqueness check.                                    *)
(***************************************************************************)
\* The record breaks the format rule of its email or of its phone.
BreaksFormat(data) ==
    \/ Has(data, "email") /\ IsStr(data["email"]) /\ ~email_pattern(data["email"].s)
    \/ Has(data, "phone") /\ IsStr(data["phone"]) /\ ~phone_pattern(data["phone"].s)

\* C12: in every mutating endpoint the validation stage completes before any
\* business check: a record that breaks a format rule and collides with an
\* existing email is answered with the validation rejection and never with 409,
\* and the uniqueness check is reached only with a record that passed every
\* validator.
C12_ValidationBeforeUniqueness ==
    /\ (last.op \in {"create_customer", "update_customer"} /\ last.resp.status = 409) =>
          ~BreaksFormat(last.data)
    /\ (last.op = "create_customer" /\ "unique" \in Range(last.steps)) =>
          ~BreaksFormat(last.data)
    /\ (/\ last.op \in {"create_operator", "update_operator"}
        /\ "get_by_email" \in Range(last.steps)) =>
          validate_operator_data(last.clean, last.op = "update_operator") = <<>>

(***************************************************************************)
(* Values of the wrong type.                                               *)
(***************************************************************************)
\* The body was read and one of its text fields holds a value that is not a str.
WrongTypedText ==
    \E f \in {"name", "email", "phone", "customer_email"} :
        f \in DOMAIN last.data /\ Has(last.data, f) /\ ~IsStr(last.data[f])

\* C13: validators never raise uncaught: for every request body whose name, email
\* or phone value is a number, a boolean or null instead of a string, each
\* mutating handler returns a structured 400-class response; no such input
\* produces an uncaught exception or a 500.
C13_WrongTypeIsClientError ==
    (/\ last.op \in {"create_customer", "update_customer", "create_order",
                     "create_operator", "update_operator"}
     /\ WrongTypedText) =>
        last.resp.status \in 400..499

(***************************************************************************)
(* Keys the operator schema does not know.                                 *)
(***************************************************************************)
\* The body holds a key outside {name, email, phone}.
HasUnexpectedKey(data) ==
    \E k \in DOMAIN data : k \notin {"name", "email", "phone"} /\ Has(data, k)

\* C14: operator validation is fail-closed on schema: for create and for update,
\* any record containing a key outside {name, email, phone} yields a non-empty
\* error list, and such a request never mutates the operators store.
C14_UnexpectedFieldsRejected ==
    /\ (/\ last.op \in {"create_operator", "update_operator"}
        /\ HasUnexpectedKey(last.data)) =>
          LET update == last.op = "update_operator"
              errors == validate_operator_data(last.clean, update)
          IN /\ errors # <<>>
             /\ "unexpected fields: role" \in Range(errors)
             /\ OperatorValidated => last.resp.status = IF update THEN 422 ELSE 400
             /\ last.resp.status \notin {200, 201}
             /\ Range(last.steps) \cap {"get_by_email", "create", "update"} = {}
             /\ operators = last.pre
    /\ \A i \in DOMAIN pending : ~HasUnexpectedKey(pending[i].data)

\* An update of an existing operator whose only fault is the key role is rejected.
C14_Witness ==
    /\ last.op = "update_operator"
    /\ HasUnexpectedKey(last.data)
    /\ OperatorValidated
    /\ validate_operator_data(last.clean, TRUE) = <<"unexpected fields: role">>
    /\ last.resp.status = 422
    /\ operators = last.pre

(***************************************************************************)
(* Validation of a create and of an update.                                *)
(***************************************************************************)
\* C15: for every record, validate_operator_data(record, update=True) returns
\* exactly the errors of validate_operator_data(record, update=False) minus the
\* 'name is required' and 'email is required' errors: update mode relaxes only the
\* required clauses, and every format or length error of a field that is present
\* is reported in both modes.
C15_UpdateRelaxesOnlyRequired ==
    last.op = "validate_operator_data" =>
        /\ last.update =
              SelectSeq(last.create,
                        LAMBDA e : e \notin {"name is required", "email is required"})
        /\ \A f \in {"name", "email"} :
              /\ RequiredMessage(f) \in Range(last.create) <=> ~Has(last.data, f)
              /\ RequiredMessage(f) \notin Range(last.update)

\* A record with an over-long name and no email: the create reports both, the
\* update the name alone.
C15_Witness ==
    /\ last.op = "validate_operator_data"
    /\ last.create = <<"name cannot exceed 255 characters", "email is required">>
    /\ last.update = <<"name cannot exceed 255 characters">>

(***************************************************************************)
(* Operator ids.                                                           *)
(***************************************************************************)
\* The id is the canonical text of a UUID: 8-4-4-4-12 hexadecimal digits.
CanonicalUuid(id) ==
    /\ IsStr(id)
    /\ Len(id.s) = 36
    /\ \A i \in 1..36 :
          IF i \in {9, 14, 19, 24} THEN id.s[i] = "-"
          ELSE id.s[i] \in Digits \cup {"a", "b", "c", "d", "e", "f"}

\* A request to an endpoint that takes an id, which the handler received (the
\* endpoints behind require_auth: with a valid token).
IdRequest ==
    /\ last.op \in {"get_operator", "update_operator", "delete_operator",
                    "get_operator_skills"}
    /\ "validate_id" \in Range(last.steps)

\* The handler looked the operator up.
LookedUp == "get_by_id" \in Range(last.steps)

\* C16: every operator endpoint that takes an id checks the id format before any
\* store lookup: an id that is not a valid UUID is answered 400 with a format hint
\* and the store is never read; a well-formed id with no matching operator is
\* answered 404 with a hint, and the store is unchanged in both cases.
C16_IdCheckedBeforeLookup ==
    /\ (last.op \in {"get_operator", "update_operator", "delete_operator",
                     "get_operator_skills"}) =>
          \A i \in DOMAIN last.steps :
              last.steps[i] = "get_by_id" =>
                  \E j \in 1..(i - 1) : last.steps[j] = "validate_id"
    /\ (IdRequest /\ ~CanonicalUuid(last.id)) =>
          /\ last.resp.status = 400
          /\ last.resp.hint # <<>>
          /\ ~LookedUp
          /\ operators = last.pre
          /\ skills = last.pre_skills
    /\ (IdRequest /\ CanonicalUuid(last.id)) =>
          /\ last.op # "update_operator" => LookedUp
          /\ (last.op = "update_operator" /\ last.is_json /\ DictTruthy(last.data)) => LookedUp
          /\ (LookedUp /\ \A k \in DOMAIN last.seen : last.seen[k].id # last.id) =>
                /\ last.resp.status = 404
                /\ last.resp.hint # <<>>
                /\ operators = last.pre
                /\ skills = last.pre_skills

\* A delete with a valid token and an id that is no UUID is refused unread.
C16_Witness ==
    /\ last.op = "delete_operator"
    /\ last.hdr = GoodHeader
    /\ ~CanonicalUuid(last.id)
    /\ last.resp.status = 400
    /\ last.steps = <<"auth", "validate_id">>
    /\ operators # <<>>
    /\ operators = last.pre

\* An update of a well-formed id that no row holds is answered 404.
C16_WitnessNotFound ==
    /\ last.op = "update_operator"
    /\ CanonicalUuid(last.id)
    /\ LookedUp
    /\ operators # <<>>
    /\ last.resp.status = 404

(***************************************************************************)
(* C17                                                                     *)
(***************************************************************************)
\* A query argument reads as an integer: it is left out (the int default is
\* used) or it is, whitespace around it apart, an optional sign and digits.
ParsesAsInteger(arg) ==
    \/ arg = Absent
    \/ LET t == strip(arg.s)
           d == IF t # <<>> /\ Head(t) \in {"+", "-"} THEN Tail(t) ELSE t
       IN d # <<>> /\ \A i \in DOMAIN d : d[i] \in Digits

\* The integer a query argument stands for, dflt when it is left out.
PageValue(arg, dflt) == IF arg = Absent THEN dflt ELSE IntOfStr(arg.s).n

\* An authenticated GET /orders has been served.
ListServed == last.op = "list_orders" /\ token_required(last.hdr)

C17_WitnessShort ==
    /\ ListServed
    /\ last.resp.status = 200
    /\ PageValue(last.data.offset, 0) + PageValue(last.data.limit, 10) > Len(last.pre)
    /\ last.resp.item[1].orders # <<>>
    /\ Len(last.pre) > Len(last.resp.item[1].orders)

(***************************************************************************)
(* C18                                                                     *)
(***************************************************************************)
\* The last response is that of a persistent write: Operator.create, update or
\* delete was called.
WriteAttempted ==
    /\ last # NoRequest
    /\ last.op \in {"create_operator", "update_operator", "delete_operator"}
    /\ last.steps # <<>>
    /\ last.steps[Len(last.steps)] \in {"create", "update", "delete"}

\* The rows of a table that do not belong to operator id.
RowsOfOthers(rows, id, key) == SelectSeq(rows, LAMBDA r : r[key] # id)

\* C18: a persistent operator write that fails leaves the operators and skills
\* tables exactly as they were before it; one that succeeds has made all of its
\* changes: a create added one row, an update changed only rows of its id, a delete
\* removed the operator's row together with every skill row of the operator.
C18_WritesAllOrNothing ==
    WriteAttempted =>
        /\ last.resp.status \in {200, 201, 500}
        /\ last.resp.status = 500 =>
              /\ operators = last.pre
              /\ skills = last.pre_skills
        /\ last.resp.status = 201 =>
              /\ last.op = "create_operator"
              /\ Len(operators) = Len(last.pre) + 1
              /\ SubSeq(operators, 1, Len(last.pre)) = last.pre
              /\ skills = last.pre_skills
        /\ last.resp.status = 200 /\ last.op = "update_operator" =>
              /\ Len(operators) = Len(last.pre)
              /\ \E i \in DOMAIN operators : operators[i].id = last.id
              /\ RowsOfOthers(operators, last.id, "id") = RowsOfOthers(last.pre, last.id, "id")
              /\ skills = last.pre_skills
        /\ last.resp.status = 200 /\ last.op = "delete_operator" =>
              /\ \E i \in DOMAIN last.pre : last.pre[i].id = last.id
              /\ operators = RowsOfOthers(last.pre, last.id, "id")
              /\ skills = RowsOfOthers(last.pre_skills, last.id, "operator_id")

\* A delete whose row another delete removed first: it deleted the operator's
\* skill row, found no operator row, failed, and the skill row is still there.
C18_Witness ==
    /\ WriteAttempted
    /\ last.op = "delete_operator"
    /\ last.resp.status = 500
    /\ \E i \in DOMAIN skills : skills[i].operator_id = last.id
    /\ \A i \in DOMAIN operators : operators[i].id # last.id

\* An update whose row was deleted after its checks: it matches no row and fails.
C18_WitnessUpdate ==
    /\ WriteAttempted
    /\ last.op = "update_operator"
    /\ last.resp.status = 500
    /\ \A i \in DOMAIN last.pre : last.pre[i].id # last.id
    /\ \E i \in DOMAIN last.seen : last.seen[i].id = last.id

\* A create whose INSERT breaks the UNIQUE constraint on email.
C18_WitnessCreate ==
    /\ WriteAttempted
    /\ last.op = "create_operator"
    /\ last.resp.status = 500
    /\ last.pre # <<>>

\* A delete that removed an operator's row and its skill row together.
C18_WitnessCascade ==
    /\ WriteAttempted
    /\ last.op = "delete_operator"
    /\ last.resp.status = 200
    /\ \E i \in DOMAIN last.pre_skills : last.pre_skills[i].operator_id = last.id
    /\ skills = <<>>

(***************************************************************************)
(* C19                                                                     *)
(***************************************************************************)
\* text t is text s without the whitespace at its two ends: s is whitespace, t,
\* whitespace, and t neither begins nor ends with whitespace.
Trimmed(s, t) ==
    /\ t # <<>> => t[1] \notin Whitespace /\ t[Len(t)] \notin Whitespace
    /\ \E i \in 0..Len(s) :
          /\ i + Len(t) <= Len(s)
          /\ t = SubSeq(s, i + 1, i + Len(t))
          /\ \A j \in 1..Len(s) : (j <= i \/ j > i + Len(t)) => s[j] \in Whitespace

CarriesVerifiedToken(hdr) ==
    /\ hdr.t = "str"
    /\ startswith(hdr.s, BEARER)
    /\ LET token == SubSeq(hdr.s, Len(BEARER) + 1, Len(hdr.s))
       IN token # <<>> /\ jwt_decode(token).raises = ""

\* The store of the mock blueprint that is being served.
MockStore ==
    CASE svc = "orders" -> orders_db
      [] svc = "products" -> products_db
      [] OTHER -> customers_db

\* A mutating endpoint of customers, orders or products has answered.
MockMutationServed ==
    /\ last # NoRequest
    /\ last.op \in {"create_order", "update_order", "delete_order", "create_product",
                    "update_product", "create_customer", "update_customer"}

\* C20: a mutating endpoint of customers, orders and products changes its store
\* only for a request whose Authorization header carries a Bearer token that
\* verifies against the signing secret; every other request is answered 401 and
\* leaves the store unchanged.
C20_MockStoresNeedVerifiedToken ==
    MockMutationServed =>
        /\ MockStore # last.pre => CarriesVerifiedToken(last.hdr)
        /\ ~CarriesVerifiedToken(last.hdr) =>
              /\ last.resp.status = 401
              /\ MockStore = last.pre

(***************************************************************************)
(* C21                                                                     *)
(***************************************************************************)
\* A timestamp column reads back: it is empty (the Operator then gets the time
\* of the read) or the text of a datetime.
StampReads(v) ==
    \/ v.s = <<>>
    \/ Len(v.s) >= 2 /\ v.s[1] = "T" /\ \A i \in 2..Len(v.s) : v.s[i] \in Digits

\* The rows of the table, before the listing, that parse.
ParsingRows ==
    SelectSeq(last.pre, LAMBDA row : StampReads(row.created_at) /\ StampReads(row.updated_at))

\* GET /operators has been answered.
ListingServed == last # NoRequest /\ last.op = "get_operators"

\* The list in the body of the listing.
Listed == last.resp.data[1].data

\* The row of the table that a listed representation stands for.
RowListed(i) == last.pre[CHOOSE k \in DOMAIN last.pre : last.pre[k].id = Listed[i].id]

\* C21 as stated: the listing never fails, and it holds exactly the rows that
\* parse, in the order in which the table holds them, with count their number.
C21_ListingInTableOrder ==
    ListingServed =>
        /\ last.resp.status = 200
        /\ last.resp.data[1].count = Len(Listed)
        /\ Len(Listed) = Len(ParsingRows)
        /\ \A i \in DOMAIN Listed : Listed[i].id = ParsingRows[i].id

\* C21, amended: the listing never fails because of a row that does not parse;
\* it holds each row that parses exactly once and no other, with the row's name,
\* email and phone, ordered by the stored created_at with the greatest first (a
\* row without created_at last), and count is the number of rows listed.
C21_ListingNewestFirst ==
    ListingServed =>
        /\ last.resp.status = 200
        /\ last.resp.data[1].count = Len(Listed)
        /\ Len(Listed) = Len(ParsingRows)
        /\ \A k \in DOMAIN ParsingRows : \E i \in DOMAIN Listed : Listed[i].id = ParsingRows[k].id
        /\ \A i \in DOMAIN Listed :
              /\ \E k \in DOMAIN ParsingRows : ParsingRows[k] = RowListed(i)
              /\ Listed[i].name = RowListed(i).name
              /\ Listed[i].email = RowListed(i).email
              /\ Listed[i].phone = RowListed(i).phone
        /\ \A i, j \in DOMAIN Listed :
              i < j =>
                 LET a == RowListed(i).created_at.s
                     b == RowListed(j).created_at.s
                 IN \/ b = <<>>
                    \/ /\ a # <<>>
                       /\ Len(a) = Len(b)
                       /\ DigitsValue(Tail(a)) >= DigitsValue(Tail(b))

\* A table of three rows, the first written before the third and the second
\* with a created_at that is no timestamp: the listing is the third row and then
\* the first, with count 2.
C21_Witness ==
    /\ ListingServed
    /\ Len(last.pre) = 3
    /\ last.pre[1].created_at = isoformat(1)
    /\ ~StampReads(last.pre[2].created_at)
    /\ last.pre[3].created_at = isoformat(2)
    /\ StampReads(last.pre[1].updated_at) /\ StampReads(last.pre[3].updated_at)
    /\ last.resp.status = 200
    /\ last.resp.data[1].count = 2
    /\ Listed[1].id = last.pre[3].id
    /\ Listed[2].id = last.pre[1].id

(***************************************************************************)
(* C22                                                                     *)
(***************************************************************************)
\* The update record of the last request supplies field f.
Supplied(data, f) == f \in DOMAIN data /\ Has(data, f)

\* A partial update of a customer, product or order has succeeded.
MockUpdated ==
    /\ last # NoRequest
    /\ last.op \in {"update_order", "update_product", "update_customer"}
    /\ last.resp.status = 200

\* A partial update of an operator has succeeded.
OperatorUpdated ==
    /\ last # NoRequest
    /\ last.op = "update_operator"
    /\ last.resp.status = 200

\* C22: a successful partial update changes only the supplied fields: every
\* field of the targeted record that the update record does not supply keeps the
\* value it had before (an operator's updated_at is refreshed, its id and
\* created_at are kept), and every other record of the store is unchanged.
C22_PartialUpdateKeepsTheRest ==
    /\ MockUpdated =>
          LET i == FirstIndex(last.pre, last.id)
          IN /\ i # 0
             /\ Len(MockStore) = Len(last.pre)
             /\ \A k \in DOMAIN last.pre : k # i => MockStore[k] = last.pre[k]
             /\ \A f \in DOMAIN last.pre[i] :
                   ~Supplied(last.data, f) => MockStore[i][f] = last.pre[i][f]
    /\ OperatorUpdated =>
          /\ Len(operators) = Len(last.pre)
          /\ skills = last.pre_skills
          /\ \A k \in DOMAIN last.pre :
                IF last.pre[k].id # last.id THEN operators[k] = last.pre[k]
                ELSE /\ operators[k].id = last.pre[k].id
                     /\ operators[k].created_at = last.pre[k].created_at
                     /\ operators[k].updated_at # last.pre[k].updated_at
                     /\ \A f \in {"name", "email", "phone"} :
                           ~Supplied(last.clean, f) => operators[k][f] = last.pre[k][f]

\* Nothing has written to the operators table between the read and the write of
\* the request answered last.
NoWriteInBetween == last.seen = last.pre

\* The partial updates of operators that no other write overlaps keep the fields
\* they do not supply.
C22_SequentialUpdateKeepsTheRest ==
    OperatorUpdated /\ NoWriteInBetween => C22_PartialUpdateKeepsTheRest

(***************************************************************************)
(* C23                                                                     *)
(***************************************************************************)
\* C23: no two orders in the store have the same id.
C23_OrderIdsDistinct ==
    \A i, j \in DOMAIN orders_db : i # j => orders_db[i].id # orders_db[j].id

(***************************************************************************)
(* C24                                                                     *)
(***************************************************************************)
\* A customer PUT or a product PATCH has been answered with a 4xx status.
UpdateRejected ==
    /\ last # NoRequest
    /\ last.op \in {"update_customer", "update_product"}
    /\ last.resp.status >= 400
    /\ last.resp.status < 500

\* C24: a customer PUT or product PATCH that is answered with a 4xx status
\* leaves the store, and with it the targeted record, exactly as it was.
C24_RejectedUpdateAppliesNothing == UpdateRejected => MockStore = last.pre

(***************************************************************************)
(* C25                                                                     *)
(***************************************************************************)
\* The enumerated set of order statuses.
EnumeratedStatuses ==
    {Word("pending"), Word("processing"), Word("shipped"), Word("delivered"), Word("cancelled")}

\* C25: in every state of the orders store, from the initial contents on, every
\* order's status is one of pending, processing, shipped, delivered, cancelled.
C25_StatusesEnumerated ==
    \A i \in DOMAIN orders_db : orders_db[i].status \in EnumeratedStatuses

\* The handlers keep the set: create_order stores pending, update_order stores
\* only statuses of the set, and no request changes the status of another order.
C25_HandlersStoreEnumerated ==
    /\ last # NoRequest /\ last.op = "create_order" /\ last.resp.status = 201 =>
          orders_db[Len(orders_db)].status = Word("pending")
    /\ last # NoRequest /\ last.op \in {"create_order", "update_order", "delete_order"} =>
          \A i \in DOMAIN orders_db :
             \/ orders_db[i].status \in EnumeratedStatuses
             \/ \E k \in DOMAIN last.pre : last.pre[k].status = orders_db[i].status

(***************************************************************************)
(* C26                                                                     *)
(***************************************************************************)
\* email is a case variant of the email that the record `id` of the store holds.
OwnEmailVariant(store, id, email) ==
    /\ email.t = "str"
    /\ \E k \in DOMAIN store :
          /\ store[k].id = id
          /\ store[k].email # email
          /\ lower(store[k].email.s) = lower(email.s)

\* An update that sets the email of a record to a case variant of its own email.
OperatorOwnVariant ==
    /\ last # NoRequest
    /\ last.op = "update_operator"
    /\ Supplied(last.clean, "email")
    /\ OwnEmailVariant(last.seen, last.id, last.clean["email"])
CustomerOwnVariant ==
    /\ last # NoRequest
    /\ last.op = "update_customer"
    /\ Supplied(last.data, "email")
    /\ OwnEmailVariant(last.pre, last.id, last.data["email"])

\* C26: updating the email of an operator, as of a customer, to a case variant
\* of its own stored email is not treated as a conflict: the answer is not 409.
C26_OwnEmailVariantIsNoConflict ==
    /\ OperatorOwnVariant => last.resp.status # 409
    /\ CustomerOwnVariant => last.resp.status # 409

\* The customers half, which holds: the case variant of the customer's own email
\* is accepted and stored.
C26_CustomerVariantAccepted ==
    CustomerOwnVariant /\ ~Supplied(last.data, "phone") /\ ~Supplied(last.data, "name")
        => last.resp.status = 200

(***************************************************************************)
(* C27                                                                     *)
(***************************************************************************)
\* A create or an update of an operator has succeeded.
OperatorWritten ==
    /\ last # NoRequest
    /\ last.op \in {"create_operator", "update_operator"}
    /\ last.resp.status \in {200, 201}

\* The answer of GET /operators/{id}, sent now, for the id of the representation
\* in the last response.
FetchedNow == get_operator(last.resp.data[1].id, operators, clock).resp

\* C27: the representation in the body of a successful create or update equals
\* the representation that GET /operators/{id} returns immediately afterwards:
\* same id, name, email and phone.
C27_ReturnedEqualsFetched ==
    OperatorWritten =>
        /\ FetchedNow.status = 200
        /\ \A f \in {"id", "name", "email", "phone"} :
              FetchedNow.data[1][f] = last.resp.data[1][f]

\* The same for the requests whose email holds no uppercase letter.
C27_LowercaseReturnedEqualsFetched ==
    OperatorWritten /\ last.resp.data[1].email.s = lower(last.resp.data[1].email.s)
        => C27_ReturnedEqualsFetched

(***************************************************************************)
(* C28                                                                     *)
(***************************************************************************)
\* DELETE /orders/{id} has succeeded.
OrderDeleted ==
    /\ last # NoRequest
    /\ last.op = "delete_order"
    /\ last.resp.status = 200

\* C28: immediately after DELETE /orders/{id} succeeds the store holds no order
\* with that id, and GET /orders/{id} sent now is answered 404.
C28_DeletedOrderIsGone ==
    OrderDeleted =>
        /\ \A i \in DOMAIN orders_db : orders_db[i].id # last.id
        /\ get_order(GoodHeader, last.id, orders_db).resp.status = 404

\* The same for a delete from a store whose ids are pairwise distinct.
C28_DeletedOrderIsGoneIfIdsDistinct ==
    OrderDeleted /\ (\A i, j \in DOMAIN last.pre : i # j => last.pre[i].id # last.pre[j].id)
        => C28_DeletedOrderIsGone

(***************************************************************************)
(* C29                                                                     *)
(***************************************************************************)
\* The number a sequence of decimal digits denotes.
RECURSIVE DecimalValue(_)
DecimalValue(d) ==
    IF d = <<>> THEN 0
    ELSE DecimalValue(SubSeq(d, 1, Len(d) - 1)) * 10
         + (CHOOSE k \in 0..9 : DigitSeq[k + 1] = d[Len(d)])

\* id is prefix followed by the three-digit rendering NNN of n (n below 1000).
IsSequenceId(id, prefix, n) ==
    /\ id.t = "str"
    /\ Len(id.s) = Len(prefix) + 3
    /\ SubSeq(id.s, 1, Len(prefix)) = prefix
    /\ LET d == SubSeq(id.s, Len(prefix) + 1, Len(id.s))
       IN /\ \A i \in DOMAIN d : d[i] \in Range(DigitSeq)
          /\ DecimalValue(d) = n

\* A request of the customers or the products blueprint has been answered.
CatalogueServed ==
    /\ last # NoRequest
    /\ svc \in {"customers", "products"}

\* A customer or a product has been created.
CatalogueCreated ==
    /\ CatalogueServed
    /\ last.op \in {"create_customer", "create_product"}
    /\ last.resp.status = 201

\* C29: the customer ids are pairwise distinct and the product ids are pairwise
\* distinct; a successful create appends exactly one record, whose id is CUST-
\* or PRD- followed by the new size of the store as three digits, and keeps
\* the records before it; no request removes a record or changes an id.
C29_CatalogueIdsDistinct ==
    /\ \A i, j \in DOMAIN customers_db :
          i # j => customers_db[i].id # customers_db[j].id
    /\ \A i, j \in DOMAIN products_db :
          i # j => products_db[i].id # products_db[j].id
    /\ CatalogueCreated =>
          /\ Len(MockStore) = Len(last.pre) + 1
          /\ SubSeq(MockStore, 1, Len(last.pre)) = last.pre
          /\ IsSequenceId(MockStore[Len(MockStore)].id,
                          IF svc = "customers" THEN <<"C", "U", "S", "T", "-">>
                          ELSE <<"P", "R", "D", "-">>,
                          Len(MockStore))
          /\ last.resp.item = <<MockStore[Len(MockStore)]>>
    /\ CatalogueServed =>
          /\ Len(MockStore) >= Len(last.pre)
          /\ \A i \in DOMAIN last.pre : MockStore[i].id = last.pre[i].id

\* A customer has been created.
C29_Witness ==
    /\ CatalogueCreated
    /\ svc = "customers"
    /\ Len(customers_db) = Len(customers_db_initial) + 1

\* A product has been created in a store that an earlier create had grown.
C29_WitnessProduct ==
    /\ CatalogueCreated
    /\ svc = "products"
    /\ Len(products_db) = Len(products_db_initial) + 2

(***************************************************************************)
(* C30                                                                     *)
(***************************************************************************)
\* GET /operators/{id}/skills has been answered for an operator that exists.
SkillsOfExistingServed ==
    /\ last # NoRequest
    /\ last.op = "get_operator_skills"
    /\ validate_operator_id(last.id) = ""
    /\ get_by_id(last.pre, last.id, clock) # NoOperator

\* The rows of table skills that name operator id.
SkillRowsOf(id) == SelectSeq(last.pre_skills, LAMBDA s : s.operator_id = id)

\* C30: GET /operators/{id}/skills is answered 200 for every existing operator,
\* with count the number of the operator's skill rows and data holding one entry
\* per row, whether the operator has no skill or some.
C30_SkillsListedForExistingOperator ==
    SkillsOfExistingServed =>
        /\ last.resp.status = 200
        /\ last.resp.data[1].count = Len(SkillRowsOf(last.id))
        /\ Len(last.resp.data[1].data) = Len(SkillRowsOf(last.id))

\* The claim holds for an operator without a skill row.
C30_NoSkillsListed ==
    (SkillsOfExistingServed /\ SkillRowsOf(last.id) = <<>>) =>
        /\ last.resp.status = 200
        /\ last.resp.data[1].count = 0
        /\ last.resp.data[1].data = <<>>

\* An operator with a skill row is answered 500.
C30_SkillsAnswered500 ==
    (SkillsOfExistingServed /\ SkillRowsOf(last.id) # <<>>) =>
        /\ last.resp.status = 500
        /\ last.resp.data = <<>>

====
